---- MODULE Spec2Model ----
(***************************************************************************)
(* AIC Hub API: the authentication core (password signup/login, the        *)
(* sliding-window rate limiter over the auth_attempts log, signed session  *)
(* tokens, the GitHub OAuth callback) as a state machine over the          *)
(* relational tables and the clock.                                        *)
(*                                                                         *)
(* Text that the code processes character by character (emails, user      *)
(* names, passwords) is a tuple of one-character strings; a key of the     *)
(* rate limiter (a hashed email, a client IP) is a tuple, <<>> standing    *)
(* for None; other opaque text is a string, "" standing for None.  Time    *)
(* is in whole seconds.                                                    *)
(***************************************************************************)
EXTENDS Integers, Sequences, FiniteSets, Bags, TLC

VARIABLES
  now,             \* wall clock, seconds (datetime.now(tz=UTC))
  users,           \* table users: a set of rows
  oauth_accounts,  \* table oauth_accounts: a set of rows
  attempts,        \* table auth_attempts: a bag of rows (ids are not modelled)
  wire,            \* signed values the server has handed to clients (cookies)
  req,             \* the last request
  last,            \* the response to the last request
  call,            \* the last direct call of a function
  username_changed, \* ids of the users whose PATCH /users/me changed the username
  tag_usage,       \* table tag_usage: tag -> row, NoRow where there is none
  articles,        \* table articles: a set of rows
  spaces,          \* table spaces: a set of rows
  search_index,    \* table search_index: a bag of rows (no unique constraint)
  pending,         \* requests in flight: what each has still to commit
  uuids            \* primary keys drawn so far for articles and spaces (uuid.uuid4)

content == <<username_changed, tag_usage, articles, spaces, search_index, pending, uuids>>

vars == <<now, users, oauth_accounts, attempts, wire, req, last, call,
          username_changed, tag_usage, articles, spaces, search_index, pending, uuids>>

-----------------------------------------------------------------------------
(* Bounds of the model *)

MaxAttempts == 3          \* rows of auth_attempts explored by SpecAuth
MaxWire == 2              \* signed cookies kept on the client side
MaxCount == 2             \* +1 deltas a tag receives between two resets
MaxContent == 1           \* articles and spaces ever created
MaxInFlight == 2          \* requests between their first and last commit

-----------------------------------------------------------------------------
(* Text helpers *)

Upper == {"A", "B", "I", "S", "U"}

AsciiLower(c) ==
  CASE c = "A" -> "a"
    [] c = "B" -> "b"
    [] c = "I" -> "i"
    [] c = "S" -> "s"
    [] c = "U" -> "u"
    [] OTHER -> c

RECURSIVE LStrip(_)
LStrip(s) == IF s # <<>> /\ Head(s) = " " THEN LStrip(Tail(s)) ELSE s

RECURSIVE RStrip(_)
RStrip(s) ==
  IF s # <<>> /\ s[Len(s)] = " " THEN RStrip(SubSeq(s, 1, Len(s) - 1)) ELSE s

Strip(s) == RStrip(LStrip(s))

Lower(s) == [i \in 1..Len(s) |-> AsciiLower(s[i])]

Letters == {"a", "b", "c", "d", "e", "h", "i", "l", "m", "n", "o", "p", "r",
            "s", "u", "w", "x"} \cup {"A", "B", "S", "W", "P"}
Digits == {"0", "1", "2", "3", "4", "5", "6", "7", "8", "9"}

DigitChar(d) ==
  CASE d = 0 -> "0" [] d = 1 -> "1" [] d = 2 -> "2" [] d = 3 -> "3"
    [] d = 4 -> "4" [] d = 5 -> "5" [] d = 6 -> "6" [] d = 7 -> "7"
    [] d = 8 -> "8" [] OTHER -> "9"

\* str(n) for n >= 0
RECURSIVE IntToStr(_)
IntToStr(n) ==
  IF n < 10 THEN <<DigitChar(n)>>
  ELSE IntToStr(n \div 10) \o <<DigitChar(n % 10)>>

-----------------------------------------------------------------------------
(* security.py *)

normalize_email(email) == Lower(Strip(email))

\* sha256 of the normalized email, as an opaque injective tag
hash_email(email) == <<"sha256", normalize_email(email)>>

\* A stored password hash: fmt is "argon2id" for the output of hash_password,
\* "null" for a NULL column, "malformed" for text that is no Argon2 hash.
NoHash == [fmt |-> "null", pw |-> <<>>]
MalformedHash == [fmt |-> "malformed", pw |-> <<>>]

hash_password(password) == [fmt |-> "argon2id", pw |-> password]

\* argon2.PasswordHasher.verify: True on a match, VerifyMismatchError on a
\* mismatch, InvalidHashError on text that is no Argon2 hash.
PasswordHasher_verify(stored_hash, password) ==
  IF stored_hash.fmt # "argon2id" THEN "InvalidHashError"
  ELSE IF stored_hash.pw = password THEN "True"
  ELSE "VerifyMismatchError"

\* "True", "False", or the name of the exception that escapes
verify_password(stored_hash, password) ==
  LET r == PasswordHasher_verify(stored_hash, password) IN
  IF r = "VerifyMismatchError" THEN "False" ELSE r

constant_time_compare(val_a, val_b) == val_a = val_b

-----------------------------------------------------------------------------
(* itsdangerous.URLSafeTimedSerializer: a signed value is its payload, the  *)
(* time it was signed at and an HMAC of both under a key derived from the   *)
(* secret key and the serializer's salt.  The HMAC is a perfect MAC: the   *)
(* tuple of what it covers.                                                 *)

SecretKey == "change-me"
SessionSalt == "aic-hub-session"
StateSalt == "aic-hub-oauth-state"

Hmac(key, salt, payload, ts) == <<key, salt, payload, ts>>

Serializer_dumps(salt, payload, t) ==
  [payload |-> payload, ts |-> t, sig |-> Hmac(SecretKey, salt, payload, t)]

\* A faulty loads: the salt does not separate the purposes of signed values
Serializer_loads_any_salt(salt, token, max_age, t) ==
  IF \A purpose \in {SessionSalt, StateSalt} :
       token.sig # Hmac(SecretKey, purpose, token.payload, token.ts)
    THEN [err |-> "BadSignature", payload |-> token.payload]
  ELSE IF t - token.ts > max_age \/ t - token.ts < 0
    THEN [err |-> "SignatureExpired", payload |-> token.payload]
  ELSE [err |-> "", payload |-> token.payload]

\* loads(token, max_age): the payload, or BadSignature / SignatureExpired
\* (a BadTimeSignature)
Serializer_loads(salt, token, max_age, t) ==
  IF token.sig # Hmac(SecretKey, salt, token.payload, token.ts)
    THEN [err |-> "BadSignature", payload |-> token.payload]
  ELSE IF t - token.ts > max_age \/ t - token.ts < 0
    THEN [err |-> "SignatureExpired", payload |-> token.payload]
  ELSE [err |-> "", payload |-> token.payload]

\* No cookie / empty cookie value
NoToken == [payload |-> [none |-> TRUE], ts |-> 0, sig |-> <<>>]

-----------------------------------------------------------------------------
(* security.py: SessionTokenManager *)

max_age_seconds == 604800

NoClaims(kind) ==
  [kind |-> kind, user_id |-> 0, issued_at |-> 0, expires_at |-> 0]

\* A faulty issue: the lifetime is not added to the expiry
SessionTokenManager_issue_no_lifetime(user_id, t, nonce) ==
  [token |-> Serializer_dumps(SessionSalt,
               [user_id |-> user_id, iat |-> t, exp |-> t, nonce |-> nonce], t),
   claims |-> [kind |-> "claims", user_id |-> user_id, issued_at |-> t,
               expires_at |-> t]]

\* issue(user_id) at time t; nonce is secrets.token_urlsafe(8)
SessionTokenManager_issue(user_id, t, nonce) ==
  [token |-> Serializer_dumps(SessionSalt,
               [user_id |-> user_id, iat |-> t, exp |-> t + max_age_seconds,
                nonce |-> nonce], t),
   claims |-> [kind |-> "claims", user_id |-> user_id, issued_at |-> t,
               expires_at |-> t + max_age_seconds]]

\* verify(token) at time t: claims, "invalid" for None, "raised" when an
\* exception escapes (a payload without the expected keys)
SessionTokenManager_verify(token, t) ==
  LET r == Serializer_loads(SessionSalt, token, max_age_seconds, t) IN
  IF r.err # "" THEN NoClaims("invalid")
  ELSE IF ~ ({"iat", "exp", "user_id"} \subseteq DOMAIN r.payload)
    THEN NoClaims("raised")
  ELSE IF r.payload.exp < t THEN NoClaims("invalid")
  ELSE [kind |-> "claims", user_id |-> r.payload.user_id,
        issued_at |-> r.payload.iat, expires_at |-> r.payload.exp]

-----------------------------------------------------------------------------
(* routes/auth.py: the signed OAuth state cookie *)

STATE_MAX_AGE_SECONDS == 600

_encode_state(state, t) == Serializer_dumps(StateSalt, [state |-> state], t)

\* A faulty _decode_state: loads without max_age, so a cookie never expires
_decode_state_unaged(raw, t) ==
  LET r == Serializer_loads(StateSalt, raw, t - raw.ts, t) IN
  IF r.err # "" THEN [err |-> r.err, state |-> ""]
  ELSE IF "state" \notin DOMAIN r.payload THEN [err |-> "KeyError", state |-> ""]
  ELSE [err |-> "", state |-> r.payload.state]

\* the state, or the exception that escapes
_decode_state(raw, t) ==
  LET r == Serializer_loads(StateSalt, raw, STATE_MAX_AGE_SECONDS, t) IN
  IF r.err # "" THEN [err |-> r.err, state |-> ""]
  ELSE IF "state" \notin DOMAIN r.payload THEN [err |-> "KeyError", state |-> ""]
  ELSE [err |-> "", state |-> r.payload.state]

-----------------------------------------------------------------------------
(* rate_limiter.py *)

\* A key of the limiter (a hashed email, a client IP) is a tuple; None is <<>>
None == <<>>

WindowSeconds == 900
SignupLimit == 5
LoginLimit == 10

\* _rules[action][scope]; both scopes of an action share the limit and window
RateLimitRule(action, scope) ==
  [limit |-> IF action = "signup" THEN SignupLimit ELSE LoginLimit,
   window |-> WindowSeconds]

RECURSIVE BagCount(_, _)
\* the number of rows of bag B, copies included, that are in the set R
BagCount(B, R) ==
  IF R = {} THEN 0
  ELSE LET r == CHOOSE x \in R : TRUE
       IN CopiesIn(r, B) + BagCount(B, R \ {r})

\* A faulty _count: created_at > window_start, the boundary left out
_count_strict(A, action, scope, value, t) ==
  IF value = None THEN 0
  ELSE BagCount(A, {r \in BagToSet(A) :
         /\ r.action = action
         /\ (IF scope = "email" THEN r.email_hash ELSE r.ip_address) = value
         /\ r.created_at > t - RateLimitRule(action, scope).window})

\* A faulty _count: only the rows of failed attempts
_count_failures(A, action, scope, value, t) ==
  IF value = None THEN 0
  ELSE BagCount(A, {r \in BagToSet(A) :
         /\ r.action = action
         /\ (IF scope = "email" THEN r.email_hash ELSE r.ip_address) = value
         /\ ~ r.success
         /\ r.created_at >= t - RateLimitRule(action, scope).window})

\* _count(scope, value): SELECT count(*) FROM auth_attempts WHERE action = ..
\* AND <column> = value AND created_at >= now - window
_count(A, action, scope, value, t) ==
  IF value = None THEN 0
  ELSE BagCount(A, {r \in BagToSet(A) :
         /\ r.action = action
         /\ (IF scope = "email" THEN r.email_hash ELSE r.ip_address) = value
         /\ r.created_at >= t - RateLimitRule(action, scope).window})

\* assert_within_limits raising only above the limit (> for >=)
assert_within_limits_above(A, action, email_hash, ip_address, t) ==
  IF email_hash # None /\ _count(A, action, "email", email_hash, t)
                          > RateLimitRule(action, "email").limit
    THEN "email"
  ELSE IF ip_address # None /\ _count(A, action, "ip", ip_address, t)
                               > RateLimitRule(action, "ip").limit
    THEN "ip"
  ELSE ""

\* "" when within limits, else the scope of the RateLimitExceeded raised
assert_within_limits(A, action, email_hash, ip_address, t) ==
  IF email_hash # None /\ _count(A, action, "email", email_hash, t)
                          >= RateLimitRule(action, "email").limit
    THEN "email"
  ELSE IF ip_address # None /\ _count(A, action, "ip", ip_address, t)
                               >= RateLimitRule(action, "ip").limit
    THEN "ip"
  ELSE ""

AuthAttempt(action, email_hash, ip_address, success, reason, t) ==
  [action |-> action, email_hash |-> email_hash, ip_address |-> ip_address,
   success |-> success, reason |-> reason, created_at |-> t]

\* A faulty record_attempt: the row is never added
record_attempt_dropped(A, action, email_hash, ip_address, success, reason, t) == A

\* session.add(attempt); session.flush()
record_attempt(A, action, email_hash, ip_address, success, reason, t) ==
  A (+) SetToBag({AuthAttempt(action, email_hash, ip_address, success, reason, t)})

-----------------------------------------------------------------------------
(* models/user.py, models/oauth_account.py: rows and constraints *)

\* NULL / empty text of a character-wise column
NoText == <<>>

User(id, email, password_hash, display_name, username, github_username, avatar_url, bio, company, location) ==
  [id |-> id, email |-> email, password_hash |-> password_hash,
   display_name |-> display_name, username |-> username,
   github_username |-> github_username, avatar_url |-> avatar_url,
   bio |-> bio, company |-> company, location |-> location,
   expertise_tags |-> <<>>, last_login |-> -1, updated_at |-> -1]

\* uuid4(): an id no row has
NewId(U) == CHOOSE i \in 1..(Cardinality(U) + 1) : \A u \in U : u.id # i

\* INSERT INTO users: email is unique and NOT NULL, username is unique, NOT
\* NULL (no default) and a String(32); FALSE is an error of the database
UserInsertOk(U, row) ==
  /\ row.username # NoText
  /\ Len(row.username) <= 32
  /\ row.email # NoText
  /\ \A u \in U : u.email # row.email /\ u.username # row.username /\ u.id # row.id

\* UPDATE users SET .. WHERE id = row.id under the same unique constraints
UserUpdateOk(U, row) ==
  /\ row.username # NoText
  /\ Len(row.username) <= 32
  /\ \A u \in U : u.id # row.id => (u.email # row.email /\ u.username # row.username)

ReplaceUser(U, row) == {u \in U : u.id # row.id} \cup {row}

OAuthAccount(user_id, provider_account_id) ==
  [user_id |-> user_id, provider |-> "github",
   provider_account_id |-> provider_account_id]

\* INSERT INTO oauth_accounts with no constraint on the provider account
OAuthInsertUnchecked(O, row) == TRUE

\* INSERT INTO oauth_accounts under uq_oauth_provider_account: FALSE is an
\* IntegrityError
OAuthInsertOk(O, row) ==
  \A a \in O : ~ (/\ a.provider = row.provider
                  /\ a.provider_account_id = row.provider_account_id)

-----------------------------------------------------------------------------
(* routes/auth.py: responses and cookies *)

INVALID_CREDENTIALS == "Invalid credentials"
SIGNUP_GENERIC_ERROR == "Unable to complete signup"
RATE_LIMIT_ERROR == "Too many attempts. Please try again later"
INTERNAL_SERVER_ERROR == "Internal Server Error"

\* What the client sees: status, detail, the session cookie set (NoToken when
\* none is), whether the handler called the OAuth provider, the user the
\* response is about (0 when none)
Response(op, status, detail, set_cookie, provider_called, user) ==
  [op |-> op, status |-> status, detail |-> detail, set_cookie |-> set_cookie,
   provider_called |-> provider_called, user |-> user]

\* An exception no handler catches: 500, and the request's session is closed
\* without a commit
Unhandled(op, provider_called) ==
  Response(op, 500, INTERNAL_SERVER_ERROR, NoToken, provider_called, 0)

\* settings.password_min_length
password_min_length == 8

_password_strength_ok(password) ==
  IF Len(password) < password_min_length THEN FALSE
  ELSE /\ \E i \in 1..Len(password) : password[i] \in Letters
       /\ \E i \in 1..Len(password) : password[i] \in Digits

RateLimitReason(scope) ==
  IF scope = "email" THEN "rate_limit_email" ELSE "rate_limit_ip"

\* Cache-Control and the cookie attributes are not modelled
_set_session_cookie(response, token) == [response EXCEPT !.set_cookie = token]

\* What a handler leaves behind: the committed tables and the response
Outcome(U, O, A, resp) ==
  [users |-> U, oauth_accounts |-> O, attempts |-> A, resp |-> resp]

\* POST /auth/signup at time t
signup(U, O, A, t, payload, client_ip, nonce) ==
  LET email == normalize_email(payload.email)
      email_hash == hash_email(email)
      limited == assert_within_limits(A, "signup", email_hash, client_ip, t)
      user == User(NewId(U), email, hash_password(payload.password),
                   payload.display_name, NoText, NoText, "", "", "", "")
      issued == SessionTokenManager_issue(user.id, t, nonce)
  IN
  IF ~ _password_strength_ok(payload.password)
    THEN Outcome(U, O, A,
           Response("signup", 400, SIGNUP_GENERIC_ERROR, NoToken, FALSE, 0))
  ELSE IF limited # ""
    THEN Outcome(U, O,
           record_attempt(A, "signup", email_hash, client_ip, FALSE,
                          RateLimitReason(limited), t),
           Response("signup", 429, RATE_LIMIT_ERROR, NoToken, FALSE, 0))
  ELSE IF \E u \in U : u.email = email
    THEN Outcome(U, O,
           record_attempt(A, "signup", email_hash, client_ip, FALSE,
                          "duplicate_email", t),
           Response("signup", 400, SIGNUP_GENERIC_ERROR, NoToken, FALSE, 0))
  ELSE IF ~ UserInsertOk(U, user)
    THEN Outcome(U, O, A, Unhandled("signup", FALSE))
  ELSE Outcome(U \cup {[user EXCEPT !.last_login = t]}, O,
         record_attempt(A, "signup", email_hash, client_ip, TRUE, "created", t),
         _set_session_cookie(Response("signup", 201, "", NoToken, FALSE, user.id),
                             issued.token))

\* POST /auth/login at time t from the answer of assert_within_limits on:
\* limited is "" or the scope of the RateLimitExceeded it raised
login_from_limiter(U, O, A, t, payload, client_ip, nonce, limited) ==
  LET email == normalize_email(payload.email)
      email_hash == hash_email(email)
      found == {u \in U : u.email = email}
      user == CHOOSE u \in found : TRUE
      verified == IF found = {} \/ user.password_hash = NoHash THEN "False"
                  ELSE verify_password(user.password_hash, payload.password)
      issued == SessionTokenManager_issue(user.id, t, nonce)
  IN
  IF limited # ""
    THEN Outcome(U, O,
           record_attempt(A, "login", email_hash, client_ip, FALSE,
                          RateLimitReason(limited), t),
           Response("login", 429, RATE_LIMIT_ERROR, NoToken, FALSE, 0))
  ELSE IF verified = "False"
    THEN Outcome(U, O,
           record_attempt(A, "login", email_hash, client_ip, FALSE,
                          "invalid_credentials", t),
           Response("login", 401, INVALID_CREDENTIALS, NoToken, FALSE, 0))
  ELSE IF verified # "True"
    THEN Outcome(U, O, A, Unhandled("login", FALSE))
  ELSE Outcome(ReplaceUser(U, [user EXCEPT !.last_login = t]), O,
         record_attempt(A, "login", email_hash, client_ip, TRUE,
                        "authenticated", t),
         _set_session_cookie(Response("login", 200, "", NoToken, FALSE, user.id),
                             issued.token))

\* POST /auth/login at time t, nothing else writing auth_attempts between
\* its count and its commit
login(U, O, A, t, payload, client_ip, nonce) ==
  login_from_limiter(U, O, A, t, payload, client_ip, nonce,
    assert_within_limits(A, "login", hash_email(normalize_email(payload.email)),
                         client_ip, t))

\* POST /auth/logout: deletes the client's cookie; the server keeps nothing
logout == Response("logout", 204, "", NoToken, FALSE, 0)

-----------------------------------------------------------------------------
(* dependencies.py *)

NOT_AUTHENTICATED == "Not authenticated"

\* get_current_user holding the session cookie to the lifetime of the OAuth
\* state cookie
get_current_user_short_lived(U, token, t) ==
  LET claims == SessionTokenManager_verify(token, t)
  IN IF /\ token # NoToken
        /\ claims.kind = "claims"
        /\ t - token.ts <= STATE_MAX_AGE_SECONDS
        /\ \E u \in U : u.id = claims.user_id
       THEN Response("me", 200, "", NoToken, FALSE, claims.user_id)
     ELSE Response("me", 401, NOT_AUTHENTICATED, NoToken, FALSE, 0)

\* get_current_user, as GET /me answers with it: 200 and the user, or 401
get_current_user(U, token, t) ==
  LET claims == SessionTokenManager_verify(token, t)
      found == {u \in U : u.id = claims.user_id}
  IN
  IF token = NoToken
    THEN Response("me", 401, NOT_AUTHENTICATED, NoToken, FALSE, 0)
  ELSE IF claims.kind = "raised" THEN Unhandled("me", FALSE)
  ELSE IF claims.kind = "invalid"
    THEN Response("me", 401, NOT_AUTHENTICATED, NoToken, FALSE, 0)
  ELSE IF found = {}
    THEN Response("me", 401, NOT_AUTHENTICATED, NoToken, FALSE, 0)
  ELSE Response("me", 200, "", NoToken, FALSE, claims.user_id)

-----------------------------------------------------------------------------
(* github.py, routes/auth.py: the GitHub OAuth flow *)

\* The attributes of the GitHubProfile dataclass (slots=True)
GitHubProfileFields == {"id", "email", "login", "name", "avatar_url"}

\* GET /auth/login/github: the redirect and the signed state cookie
github_login(t, state_value) ==
  [resp |-> Response("github_login", 302, "", NoToken, FALSE, 0),
   state_cookie |-> _encode_state(state_value, t)]

RECURSIVE GenerateFrom(_, _, _, _)
\* the while loop of _generate_unique_username
GenerateFrom(U, base_username, preferred_username, counter) ==
  IF \A u \in U : u.username # preferred_username THEN preferred_username
  ELSE IF counter + 1 > 1000 THEN base_username \o <<"_", "token_hex">>
  ELSE GenerateFrom(U, base_username,
                    base_username \o IntToStr(counter), counter + 1)

_generate_unique_username(U, preferred_username) ==
  GenerateFrom(U, preferred_username, preferred_username, 1)

\* The attributes of profile that _populate_github_profile_data reads for
\* this user: an attribute the profile lacks is an AttributeError
PopulateReads(user) ==
  {"login"} \cup (IF user.avatar_url = "" THEN {"avatar_url"} ELSE {})
            \cup (IF user.bio = "" THEN {"bio"} ELSE {})
            \cup (IF user.company = "" THEN {"company"} ELSE {})
            \cup (IF user.location = "" THEN {"location"} ELSE {})

_populate_github_profile_data(user, profile) ==
  [user EXCEPT
     !.github_username = profile.login,
     !.username = IF user.username = NoText THEN profile.login ELSE @,
     !.avatar_url = IF @ = "" THEN profile.avatar_url ELSE @,
     !.bio = IF @ = "" THEN profile.bio ELSE @,
     !.company = IF @ = "" THEN profile.company ELSE @,
     !.location = IF @ = "" THEN profile.location ELSE @]

\* Lines 469-548 of the callback: reconcile the account, refresh the profile
\* data, commit and issue the session
reconcile(U, O, t, profile, nonce) ==
  LET normalized_email == normalize_email(profile.email)
      linked == {a \in O : a.provider = "github"
                           /\ a.provider_account_id = profile.id}
      by_email == {u \in U : u.email = normalized_email}
      creating == linked = {} /\ by_email = {}
      created == User(NewId(U), normalized_email, NoHash,
                   IF profile.name # NoText THEN profile.name ELSE profile.login,
                   _generate_unique_username(U, profile.login), profile.login,
                   profile.avatar_url, profile.bio, profile.company,
                   profile.location)
      user == IF linked # {}
                THEN CHOOSE u \in U : u.id = (CHOOSE a \in linked : TRUE).user_id
              ELSE IF by_email # {} THEN CHOOSE u \in by_email : TRUE
              ELSE created
      U1 == IF creating THEN U \cup {user} ELSE U
      O1 == IF linked # {} THEN O ELSE O \cup {OAuthAccount(user.id, profile.id)}
      populated == _populate_github_profile_data(user, profile)
      renamed == IF populated.username # NoText /\ populated.username = profile.login
                   THEN [populated EXCEPT !.username =
                           _generate_unique_username(ReplaceUser(U1, populated),
                                                     profile.login)]
                 ELSE populated
      final == [renamed EXCEPT !.last_login = t]
      issued == SessionTokenManager_issue(user.id, t, nonce)
  IN
  IF creating /\ ~ ({"bio", "company", "location"} \subseteq DOMAIN profile)
    THEN Outcome(U, O, <<>>, Unhandled("github_callback", TRUE))
  ELSE IF creating /\ ~ UserInsertOk(U, user)
    THEN Outcome(U, O, <<>>, Unhandled("github_callback", TRUE))
  ELSE IF ~ (PopulateReads(user) \subseteq DOMAIN profile)
    THEN Outcome(U, O, <<>>, Unhandled("github_callback", TRUE))
  ELSE IF ~ UserUpdateOk(U1, final)
    THEN Outcome(U, O, <<>>, Unhandled("github_callback", TRUE))
  ELSE Outcome(ReplaceUser(U1, final), O1, <<>>,
         _set_session_cookie(
           Response("github_callback", 302, "", NoToken, TRUE, user.id),
           issued.token))

\* GET /auth/callback/github at time t.  request is the code and state query
\* parameters ("" when absent) and the state cookie; provider is what GitHub
\* answers to exchange_code and fetch_profile if it is asked.
github_callback(U, O, t, request, provider, nonce) ==
  LET decoded == _decode_state(request.state_cookie, t)
      bad(detail) == Outcome(U, O, <<>>,
                       Response("github_callback", 400, detail, NoToken, FALSE, 0))
  IN
  IF request.code = "" \/ request.state = "" THEN bad("Invalid OAuth callback")
  ELSE IF request.state_cookie = NoToken THEN bad("Invalid OAuth state")
  ELSE IF decoded.err \in {"BadSignature", "SignatureExpired"}
    THEN bad("Invalid OAuth state")
  ELSE IF decoded.err # ""
    THEN Outcome(U, O, <<>>, Unhandled("github_callback", FALSE))
  ELSE IF ~ constant_time_compare(decoded.state, request.state)
    THEN bad("Invalid OAuth state")
  ELSE IF ~ provider.ok
    THEN Outcome(U, O, <<>>,
           Response("github_callback", 502, "GitHub authentication failed",
                    NoToken, TRUE, 0))
  ELSE reconcile(U, O, t, provider.profile, nonce)

-----------------------------------------------------------------------------
(* usernames.py *)

USERNAME_MIN_LENGTH == 3
USERNAME_MAX_LENGTH == 32

LowerAlnum ==
  {"a", "b", "c", "d", "e", "f", "g", "h", "i", "j", "k", "l", "m", "n", "o",
   "p", "q", "r", "s", "t", "u", "v", "w", "x", "y", "z"} \cup Digits

\* USERNAME_PATTERN.fullmatch(candidate):
\* ^[a-z0-9](?:[a-z0-9-]{1,30})[a-z0-9]$
USERNAME_PATTERN(candidate) ==
  /\ Len(candidate) >= 3
  /\ Len(candidate) <= 32
  /\ candidate[1] \in LowerAlnum
  /\ candidate[Len(candidate)] \in LowerAlnum
  /\ \A i \in 2..(Len(candidate) - 1) : candidate[i] \in LowerAlnum \cup {"-"}

\* unicodedata.normalize("NFKD", c).encode("ascii", "ignore") of one
\* character: "e_acute" stands for U+00E9, which decomposes into "e" and a
\* combining accent; "kanji" for a character with no ASCII part
AsciiOnly(c) ==
  IF c = "e_acute" THEN <<"e">> ELSE IF c = "kanji" THEN <<>> ELSE <<c>>

RECURSIVE AsciiOnlyText(_)
AsciiOnlyText(s) ==
  IF s = <<>> THEN <<>> ELSE AsciiOnly(Head(s)) \o AsciiOnlyText(Tail(s))

\* re.sub(r"[^a-z0-9-]", "-", lowered)
Sanitize(s) ==
  [i \in 1..Len(s) |-> IF s[i] \in LowerAlnum \cup {"-"} THEN s[i] ELSE "-"]

RECURSIVE CollapseHyphens(_)
\* re.sub(r"-+", "-", sanitized)
CollapseHyphens(s) ==
  IF Len(s) < 2 THEN s
  ELSE IF s[1] = "-" /\ s[2] = "-" THEN CollapseHyphens(Tail(s))
  ELSE <<s[1]>> \o CollapseHyphens(Tail(s))

RECURSIVE RStripHyphens(_)
\* str.rstrip("-")
RStripHyphens(s) ==
  IF s # <<>> /\ s[Len(s)] = "-"
    THEN RStripHyphens(SubSeq(s, 1, Len(s) - 1))
  ELSE s

RECURSIVE LStripHyphens(_)
LStripHyphens(s) ==
  IF s # <<>> /\ Head(s) = "-" THEN LStripHyphens(Tail(s)) ELSE s

\* value[:n]
Prefix(s, n) == SubSeq(s, 1, IF Len(s) < n THEN Len(s) ELSE n)

\* (s + "x" * USERNAME_MIN_LENGTH)[:USERNAME_MIN_LENGTH] when s is too short
PadToMinimum(s) ==
  IF Len(s) < USERNAME_MIN_LENGTH
    THEN Prefix(s \o <<"x", "x", "x">>, USERNAME_MIN_LENGTH)
  ELSE s

_basic_slugify(value) ==
  LET ascii_only == AsciiOnlyText(value)
      lowered == Lower(ascii_only)
      stripped == LStripHyphens(RStripHyphens(CollapseHyphens(Sanitize(lowered))))
      sanitized == IF stripped = <<>> THEN <<"u", "s", "e", "r">> ELSE stripped
  IN Prefix(PadToMinimum(sanitized), USERNAME_MAX_LENGTH)

\* A returned value, or a raised UsernameValidationError
Returned(value) == [ok |-> TRUE, value |-> value]
Raised == [ok |-> FALSE, value |-> <<>>]

\* The same function without the slug step
normalize_username_raw(value) == Returned(Strip(value))

normalize_username(value) ==
  LET candidate == _basic_slugify(Strip(value))
  IN IF USERNAME_PATTERN(candidate) THEN Returned(candidate) ELSE Raised

_apply_suffix(base, suffix) ==
  LET suffix_str == <<"-">> \o IntToStr(suffix)
      allowed_length == USERNAME_MAX_LENGTH - Len(suffix_str)
      rstripped == RStripHyphens(Prefix(base, allowed_length))
      trimmed_base == IF rstripped = <<>> THEN Prefix(base, allowed_length)
                      ELSE rstripped
      candidate == PadToMinimum(trimmed_base \o suffix_str)
  IN IF USERNAME_PATTERN(candidate) THEN Returned(candidate) ELSE Raised

\* email.split("@", 1)[0]
LocalPart(email) ==
  IF \E i \in 1..Len(email) : email[i] = "@"
    THEN SubSeq(email, 1,
           (CHOOSE i \in 1..Len(email) :
              email[i] = "@" /\ \A j \in 1..(i - 1) : email[j] # "@") - 1)
  ELSE email

\* if exclude_user_id: a UUID is truthy, None is not (0 stands for None)
NoUser == 0

RECURSIVE GenerateLoop(_, _, _, _, _)
\* the while loop of generate_unique_username
GenerateLoop(U, base, candidate, suffix, exclude_user_id) ==
  IF \A u \in U : u.username = candidate => u.id = exclude_user_id
    THEN Returned(candidate)
  ELSE LET next == _apply_suffix(base, suffix)
       IN IF ~ next.ok THEN Raised
          ELSE GenerateLoop(U, base, next.value, suffix + 1, exclude_user_id)

\* The same loop, leaving the row of exclude_user_id in the search
generate_unique_username_all_rows(U, email, exclude_user_id) ==
  LET base == normalize_username(LocalPart(email))
  IN IF ~ base.ok THEN Raised
     ELSE GenerateLoop(U, base.value, base.value, 1, NoUser)

generate_unique_username(U, email, exclude_user_id) ==
  LET base == normalize_username(LocalPart(email))
  IN IF ~ base.ok THEN Raised
     ELSE GenerateLoop(U, base.value, base.value, 1, exclude_user_id)

is_username_generated_from_email(U, user) ==
  LET expected == generate_unique_username(U, user.email, user.id)
  IN IF ~ expected.ok THEN Raised
     ELSE Returned(expected.value = user.username)

-----------------------------------------------------------------------------
(* routes/users.py: GET and PATCH /users/me *)

\* constants.AI_EXPERTISE_TAGS, the tags a profile may list
AI_EXPERTISE_TAGS == {"LLMs", "RAG", "Agents"}

\* payload.field is not None: the PATCH body sets the field
Given(payload, field) == field \in DOMAIN payload

\* _clean_text on a field kept as opaque text: blank text becomes None
_clean_text(value) == IF value = " " THEN "" ELSE value

\* _clean_text on the display name, kept character by character
CleanName(value) == Strip(value)

RECURSIVE Dedupe(_, _)
\* the loop of _validate_expertise_tags over valid tags: first occurrences
Dedupe(tags, seen) ==
  IF tags = <<>> THEN <<>>
  ELSE IF Head(tags) \in seen THEN Dedupe(Tail(tags), seen)
  ELSE <<Head(tags)>> \o Dedupe(Tail(tags), seen \cup {Head(tags)})

_validate_expertise_tags(tags) ==
  IF \E i \in 1..Len(tags) : tags[i] \notin AI_EXPERTISE_TAGS
    THEN Raised
  ELSE Returned(Dedupe(tags, {}))

USERNAME_INVALID ==
  "Username must be 3-32 characters of lowercase letters, numbers, or hyphens"
USERNAME_SET_ONCE == "Username can only be set once"
USERNAME_TAKEN == "Username is already taken"

\* What GET and PATCH /users/me answer: the status, the error detail and,
\* on success, the username and usernameEditable of the PrivateUserProfile
ProfileResponse(op, status, detail, user_id, username, username_editable) ==
  [op |-> op, status |-> status, detail |-> detail, user |-> user_id,
   username |-> username, username_editable |-> username_editable]

ProfileError(op, status, detail, user_id) ==
  ProfileResponse(op, status, detail, user_id, NoText, FALSE)

\* GET /users/me for the authenticated current_user
get_my_profile(U, current_user) ==
  LET username_editable == is_username_generated_from_email(U, current_user)
  IN IF ~ username_editable.ok
       THEN ProfileError("get_my_profile", 500, INTERNAL_SERVER_ERROR,
                         current_user.id)
     ELSE ProfileResponse("get_my_profile", 200, "", current_user.id,
                          current_user.username, username_editable.value)

\* PATCH /users/me committing each field as it is assigned: a request
\* rejected for its username keeps the texts it assigned before
update_my_profile_field_commits(U, current_user, payload, t) ==
  LET op == "update_my_profile"
      texts == {"bio", "company", "location"} \cap DOMAIN payload
      u4 == [f \in DOMAIN current_user |->
               IF f \in texts THEN _clean_text(payload[f]) ELSE current_user[f]]
      normalized_tags == IF ~ Given(payload, "expertise_tags") THEN Returned(<<>>)
                         ELSE _validate_expertise_tags(payload.expertise_tags)
      normalized_username == IF ~ Given(payload, "username") THEN Returned(NoText)
                             ELSE normalize_username(payload.username)
      rejected == \/ ~ normalized_tags.ok
                  \/ ~ normalized_username.ok
                  \/ /\ Given(payload, "username")
                     /\ normalized_username.value # current_user.username
  IN [users |-> ReplaceUser(U, u4), changed |-> FALSE,
      resp |-> IF rejected
                 THEN ProfileError(op, 400, USERNAME_TAKEN, current_user.id)
               ELSE ProfileResponse(op, 200, "", current_user.id,
                                    current_user.username, FALSE)]

\* PATCH /users/me for the authenticated current_user at time t: the
\* committed table, the response and whether the username was changed
update_my_profile(U, current_user, payload, t) ==
  LET op == "update_my_profile"
      failed(status, detail) ==
        [users |-> U, changed |-> FALSE,
         resp |-> ProfileError(op, status, detail, current_user.id)]
      username_editable == is_username_generated_from_email(U, current_user)
      u1 == IF Given(payload, "display_name")
              THEN [current_user EXCEPT
                      !.display_name = CleanName(payload.display_name)]
            ELSE current_user
      u2 == IF Given(payload, "bio")
              THEN [u1 EXCEPT !.bio = _clean_text(payload.bio)] ELSE u1
      u3 == IF Given(payload, "company")
              THEN [u2 EXCEPT !.company = _clean_text(payload.company)] ELSE u2
      u4 == IF Given(payload, "location")
              THEN [u3 EXCEPT !.location = _clean_text(payload.location)]
            ELSE u3
      normalized_tags == IF ~ Given(payload, "expertise_tags") THEN Returned(<<>>)
                         ELSE _validate_expertise_tags(payload.expertise_tags)
      u5 == IF Given(payload, "expertise_tags")
              THEN [u4 EXCEPT !.expertise_tags = normalized_tags.value]
            ELSE u4
      normalized_username == IF ~ Given(payload, "username") THEN Returned(NoText)
                             ELSE normalize_username(payload.username)
      renaming == /\ Given(payload, "username")
                  /\ normalized_username.value # current_user.username
      existing == {u \in U : /\ u.username = normalized_username.value
                             /\ u.id # current_user.id}
      u6 == IF renaming
              THEN [u5 EXCEPT !.username = normalized_username.value]
            ELSE u5
      mutated == u6 # current_user
      final == IF mutated THEN [u6 EXCEPT !.updated_at = t] ELSE u6
      U1 == ReplaceUser(U, final)
      editable_after ==
        IF renaming THEN Returned(FALSE)
        ELSE IF username_editable.value /\ mutated
          THEN is_username_generated_from_email(U1, final)
        ELSE username_editable
  IN
  IF ~ username_editable.ok THEN failed(500, INTERNAL_SERVER_ERROR)
  ELSE IF ~ normalized_tags.ok THEN failed(400, "Invalid expertise tags")
  ELSE IF ~ normalized_username.ok THEN failed(400, USERNAME_INVALID)
  ELSE IF renaming /\ ~ username_editable.value
    THEN failed(400, USERNAME_SET_ONCE)
  ELSE IF renaming /\ existing # {} THEN failed(400, USERNAME_TAKEN)
  ELSE IF mutated /\ ~ UserUpdateOk(U, final)
    THEN failed(500, INTERNAL_SERVER_ERROR)
  ELSE [users |-> U1, changed |-> renaming,
        resp |-> ProfileResponse(op, 200, "", final.id, final.username,
                                 editable_after.value)]

-----------------------------------------------------------------------------
(* seed_demo_data.py, create_demo_data.py: the rows the seeding scripts     *)
(* write.  One user stands for each script's list; addresses are shortened. *)

EmailNew == <<"a", "@", "b", ".", "c", "o", "m">>
EmailNewUpper == <<"A", "@", "b", ".", "c", "o", "m">>
EmailSarah == <<"s", "a", "r", "a", "h", "@", "b", ".", "c", "o", "m">>
EmailSarahRaw == <<" ", "S", "a", "r", "a", "h", "@", "b", ".", "c", "o", "m">>
EmailAlex == <<"a", "l", "e", "x", "@", "b", ".", "c", "o", "m">>

PasswordDemo == <<"d", "e", "m", "o", "1", "2", "3">>
PasswordStrong == <<"S", "u", "p", "3", "r", "S", "e", "c", "u", "r", "e", "1">>
PasswordWeak == <<"p", "a", "s", "s", "w", "o", "r", "d">>

NameSarahchen == <<"s", "a", "r", "a", "h", "c", "h", "e", "n">>
NameAlexchen == <<"a", "l", "e", "x", "c", "h", "e", "n">>
NameAlexchenRag == <<"a", "l", "e", "x", "c", "h", "e", "n", "-", "r", "a", "g">>
NameNew == <<"n", "e", "w">>

\* SAMPLE_USERS[0] of seed_demo_data.py
SAMPLE_USER ==
  [email |-> EmailSarah, display_name |-> <<"Sarah Chen">>,
   username |-> NameSarahchen, github_username |-> NameSarahchen,
   avatar_url |-> "https://avatars.githubusercontent.com/u/12345?v=4",
   bio |-> "AI researcher", company |-> "Anthropic",
   location |-> "San Francisco, CA", password |-> PasswordDemo]

\* DEMO_USERS[0] of create_demo_data.py
DEMO_USER ==
  [email |-> EmailAlex, display_name |-> <<"Alex Chen">>,
   username |-> NameAlexchen, github_username |-> NameAlexchenRag,
   avatar_url |-> "https://avatars.githubusercontent.com/u/1234567?v=4",
   bio |-> "AI Research Scientist", company |-> "AI Research Lab",
   location |-> "San Francisco, CA"]

\* seed_demo_data.py create_demo_users: users whose email exists are skipped
create_demo_users(U) ==
  LET d == SAMPLE_USER
      row == User(NewId(U), d.email, hash_password(d.password), d.display_name,
                  d.username, d.github_username, d.avatar_url, d.bio,
                  d.company, d.location)
  IN IF \E u \in U : u.email = d.email THEN U
     ELSE IF ~ UserInsertOk(U, row) THEN U
     ELSE U \cup {row}

\* create_demo_data.py create_demo_data: OAuth-only users, no password
create_demo_data(U) ==
  LET d == DEMO_USER
      row == User(NewId(U), d.email, NoHash, d.display_name, d.username,
                  d.github_username, d.avatar_url, d.bio, d.company, d.location)
  IN IF ~ UserInsertOk(U, row) THEN U ELSE U \cup {row}

-----------------------------------------------------------------------------
(* alembic/versions/20250928_000003_extend_user_profile.py: the migration   *)
(* that gave every existing user a username                                 *)

\* _apply_suffix of the migration: as in usernames.py, without the final
\* pattern check
migration_apply_suffix(base, suffix) ==
  LET suffix_str == <<"-">> \o IntToStr(suffix)
      allowed_length == USERNAME_MAX_LENGTH - Len(suffix_str)
      rstripped == RStripHyphens(Prefix(base, allowed_length))
      trimmed == IF rstripped = <<>> THEN Prefix(base, allowed_length)
                 ELSE rstripped
  IN PadToMinimum(trimmed \o suffix_str)

RECURSIVE GenerateUniqueLoop(_, _, _, _)
\* the while loop of _generate_unique
GenerateUniqueLoop(root, candidate, suffix, taken) ==
  IF candidate \notin taken THEN candidate
  ELSE GenerateUniqueLoop(root, migration_apply_suffix(root, suffix),
                          suffix + 1, taken)

\* _generate_unique for a base that normalizes (the migration fails on any
\* other)
_generate_unique(base, taken) ==
  LET root == normalize_username(base).value
  IN GenerateUniqueLoop(root, root, 1, taken)

RECURSIVE BackfillFrom(_, _)
\* the loop of _backfill_usernames over the rows in order of created_at;
\* before the migration no row has a username
BackfillFrom(emails, U) ==
  IF emails = <<>> THEN U
  ELSE LET taken == {u.username : u \in U}
           generated == _generate_unique(LocalPart(Head(emails)), taken)
           row == User(NewId(U), Head(emails), hash_password(PasswordStrong),
                       NoText, generated, NoText, "", "", "", "")
       IN BackfillFrom(Tail(emails), U \cup {row})

_backfill_usernames(emails) == BackfillFrom(emails, {})

\* Users who signed up before usernames existed, in order of created_at
EmailAliceX == <<"a", "l", "i", "c", "e", "@", "x", ".", "c", "o", "m">>
EmailAliceY == <<"a", "l", "i", "c", "e", "@", "y", ".", "c", "o", "m">>
EmailCarol == <<"c", "a", "r", "o", "l", "@", "x", ".", "c", "o", "m">>

NameAlice == <<"a", "l", "i", "c", "e">>
NameAlice1 == <<"a", "l", "i", "c", "e", "-", "1">>
NameAlice2 == <<"a", "l", "i", "c", "e", "-", "2">>
NameCarol == <<"c", "a", "r", "o", "l">>
NameBob == <<"b", "o", "b">>
\* "Invalid Upper", the username of test_update_profile_validates_username_and_tags
NameInvalidUpper ==
  <<"I", "n", "v", "a", "l", "i", "d", " ", "U", "p", "p", "e", "r">>
NameInvalidUpperSlug ==
  <<"i", "n", "v", "a", "l", "i", "d", "-", "u", "p", "p", "e", "r">>

-----------------------------------------------------------------------------
(* constants.py, models/tag_usage.py, services/tag_service.py *)

\* constants.AI_TAGS, the fixed taxonomy (two of its nineteen tags)
AI_TAGS == {"LLMs", "RAG"}

\* No row of tag_usage for the tag
NoRow == [tag |-> ""]

\* TagUsage.last_used_at of a tag no +1 has touched (NULL)
NeverUsed == -1

\* A row of tag_usage; trending_score in thousandths
TagUsage(tag, article_count, space_count, user_count, last_used_at, trending_score, week_count, month_count) ==
  [tag |-> tag, article_count |-> article_count, space_count |-> space_count,
   user_count |-> user_count, last_used_at |-> last_used_at,
   trending_score |-> trending_score, week_count |-> week_count,
   month_count |-> month_count]

\* The row an INSERT of TagUsage(tag=tag) stores: the column defaults apply at
\* the INSERT, not in the Python object
TagUsageDefaults(tag) == TagUsage(tag, 0, 0, 0, NeverUsed, 0, 0, 0)

EntityKinds == {"article", "space", "user"}

max(a, b) == IF a >= b THEN a ELSE b

min(a, b) == IF a <= b THEN a ELSE b

\* The row update_tag_usage makes of the row it selected
Counted1(row, entity_type, delta, t) ==
  LET counted ==
        CASE entity_type = "article" ->
               [row EXCEPT !.article_count = max(0, @ + delta)]
          [] entity_type = "space" ->
               [row EXCEPT !.space_count = max(0, @ + delta)]
          [] entity_type = "user" ->
               [row EXCEPT !.user_count = max(0, @ + delta)]
          [] OTHER -> row
  IN IF delta > 0
       THEN [counted EXCEPT !.last_used_at = t,
                            !.week_count = @ + 1,
                            !.month_count = @ + 1]
       ELSE counted

\* db.commit() of a selected row: the UPDATE sets the columns whose value the
\* call changed, to the values computed from the row as it was selected
Flush(stored, selected, changed) ==
  [column \in DOMAIN stored |->
     IF changed[column] # selected[column] THEN changed[column]
     ELSE stored[column]]

\* update_tag_usage from the row it selected (NoRow: none) to its commit, on
\* the table T as it is at the commit.  ok is FALSE when the call raises and
\* commits nothing: without a row the new TagUsage(tag=tag) holds None in
\* every counter, so the first addition raises TypeError; only a call that
\* adds nothing (no known entity_type, no positive delta) inserts the row
\* with its defaults.
CommitTagUsage(T, selected, tag, entity_type, delta, t) ==
  IF selected = NoRow /\ (entity_type \in EntityKinds \/ delta > 0)
    THEN [ok |-> FALSE, tag_usage |-> T]
  ELSE IF selected = NoRow
    THEN [ok |-> TRUE,
          tag_usage |-> [T EXCEPT ![tag] =
                           Counted1(TagUsageDefaults(tag), entity_type, delta, t)]]
  ELSE [ok |-> TRUE,
        tag_usage |-> [T EXCEPT ![tag] =
                         Flush(@, selected,
                               Counted1(selected, entity_type, delta, t))]]

\* update_tag_usage where the counters are not floored
update_tag_usage_unfloored(T, tag, entity_type, delta, t) ==
  IF tag \notin AI_TAGS THEN [ok |-> TRUE, tag_usage |-> T]
  ELSE IF T[tag] = NoRow THEN [ok |-> FALSE, tag_usage |-> T]
  ELSE LET row == T[tag]
           counted ==
             CASE entity_type = "article" ->
                    [row EXCEPT !.article_count = @ + delta]
               [] entity_type = "space" ->
                    [row EXCEPT !.space_count = @ + delta]
               [] entity_type = "user" ->
                    [row EXCEPT !.user_count = @ + delta]
               [] OTHER -> row
           used == IF delta > 0
                     THEN [counted EXCEPT !.last_used_at = t,
                                          !.week_count = @ + 1,
                                          !.month_count = @ + 1]
                     ELSE counted
       IN [ok |-> TRUE, tag_usage |-> [T EXCEPT ![tag] = used]]

\* update_tag_usage where the last-used fields follow every delta
update_tag_usage_used_on_any_delta(T, tag, entity_type, delta, t) ==
  IF tag \notin AI_TAGS THEN [ok |-> TRUE, tag_usage |-> T]
  ELSE IF T[tag] = NoRow THEN [ok |-> FALSE, tag_usage |-> T]
  ELSE [ok |-> TRUE,
        tag_usage |-> [T EXCEPT ![tag] =
                         [Counted1(@, entity_type, delta, t)
                            EXCEPT !.last_used_at = t,
                                   !.week_count = T[tag].week_count + 1,
                                   !.month_count = T[tag].month_count + 1]]]

\* TagService.update_tag_usage on the table T at instant t, nothing else
\* writing the table between its select and its commit
update_tag_usage(T, tag, entity_type, delta, t) ==
  IF tag \notin AI_TAGS THEN [ok |-> TRUE, tag_usage |-> T]
  ELSE CommitTagUsage(T, T[tag], tag, entity_type, delta, t)

\* math.log(n) * 10 in thousandths, n = 1, 2, ...
LogTimes10 ==
  <<0, 6931, 10986, 13862, 16094, 17917, 19459, 20794, 21972, 23025, 23978,
    24849, 25649>>

SecondsPerHour == 3600

\* (now - last_used_at).total_seconds() / 3600, for instants on whole hours
hours_since_use(t, last_used_at) == (t - last_used_at) \div SecondsPerHour

\* recency_factor * 30 in thousandths
RecencyBonus(row, t) ==
  IF row.last_used_at # NeverUsed
    THEN (30000 * 168) \div (168 + hours_since_use(t, row.last_used_at))
    ELSE 0

\* growth_factor * 20 in thousandths:
\* min(2.0, week_count / max(1, month_count / 4)) when month_count > 0
GrowthBonus(row) ==
  IF row.month_count > 0
    THEN IF row.month_count <= 4
           THEN 20 * min(2000, 1000 * row.week_count)
           ELSE 20 * min(2000, (4000 * row.week_count) \div row.month_count)
    ELSE 0

total_usage(row) == row.article_count + row.space_count + row.user_count

\* The combined trending score of one row
TrendingScore(row, t) ==
  LogTimes10[total_usage(row) + 1] + RecencyBonus(row, t) + GrowthBonus(row)

\* calculate_trending_scores where the recency bonus is left out
calculate_trending_scores_no_recency(T, t) ==
  [tag \in DOMAIN T |->
     IF T[tag] = NoRow THEN NoRow
     ELSE [T[tag] EXCEPT !.trending_score =
             LogTimes10[total_usage(T[tag]) + 1] + GrowthBonus(T[tag])]]

\* TagService.calculate_trending_scores at instant t
calculate_trending_scores(T, t) ==
  [tag \in DOMAIN T |->
     IF T[tag] = NoRow THEN NoRow
     ELSE [T[tag] EXCEPT !.trending_score = TrendingScore(T[tag], t)]]

\* reset_periodic_counts where the month resets month_count alone
reset_periodic_counts_month_alone(T, period) ==
  [tag \in DOMAIN T |->
     IF T[tag] = NoRow THEN NoRow
     ELSE IF period = "week" THEN [T[tag] EXCEPT !.week_count = 0]
     ELSE IF period = "month" THEN [T[tag] EXCEPT !.month_count = 0]
     ELSE T[tag]]

\* TagService.reset_periodic_counts
reset_periodic_counts(T, period) ==
  [tag \in DOMAIN T |->
     IF T[tag] = NoRow THEN NoRow
     ELSE IF period = "week" THEN [T[tag] EXCEPT !.week_count = 0]
     ELSE IF period = "month"
       THEN [T[tag] EXCEPT !.month_count = 0, !.week_count = 0]
     ELSE T[tag]]

-----------------------------------------------------------------------------
(* models/article.py, models/space.py, models/search_index.py,           *)
(* services/search_service.py, services/article_service.py,              *)
(* services/space_service.py                                             *)

Article(id, author_id, title, summary, tags, status) ==
  [id |-> id, author_id |-> author_id, title |-> title, summary |-> summary,
   tags |-> tags, status |-> status, view_count |-> 0]

\* A row of space_members; its space_id is that of the space that holds it
SpaceMember(user_id, role) == [user_id |-> user_id, role |-> role]

\* A row of spaces, with the rows of space_members that refer to it
Space(id, owner_id, name, description, tags, visibility) ==
  [id |-> id, owner_id |-> owner_id, name |-> name,
   description |-> description, tags |-> tags, visibility |-> visibility,
   member_count |-> 1, members |-> {}]

SearchIndex(entity_type, entity_id, title, content_text, tags) ==
  [entity_type |-> entity_type, entity_id |-> entity_id, title |-> title,
   content |-> content_text, tags |-> tags]

\* The tables the content services read and write
Tables(A, S, T, X) ==
  [articles |-> A, spaces |-> S, tag_usage |-> T, search_index |-> X]

\* set(tags)
SetOf(tags) == {tags[i] : i \in DOMAIN tags}

\* for tag in <a set>: the elements in the order the iteration yields them
Iterate(tag_set, order) == SelectSeq(order, LAMBDA tag : tag \in tag_set)

\* The rows of the index for one entity
IndexRows(X, entity_type, entity_id) ==
  {r \in BagToSet(X) : r.entity_type = entity_type /\ r.entity_id = entity_id}

\* SearchService.update_search_index: ok is FALSE when scalar_one_or_none
\* finds more than one row and raises
update_search_index(X, entity_type, entity_id, title, content_text, tags) ==
  LET found == IndexRows(X, entity_type, entity_id)
      entry == SearchIndex(entity_type, entity_id, title, content_text, tags)
  IN IF BagCount(X, found) > 1 THEN [ok |-> FALSE, search_index |-> X]
     ELSE IF found # {}
       THEN [ok |-> TRUE,
             search_index |-> (X (-) SetToBag(found)) (+) SetToBag({entry})]
     ELSE [ok |-> TRUE, search_index |-> X (+) SetToBag({entry})]

\* SearchService.delete_from_search_index
delete_from_search_index(X, entity_type, entity_id) ==
  LET kept == BagToSet(X) \ IndexRows(X, entity_type, entity_id)
  IN [r \in kept |-> X[r]]

\* What a service does after it has committed the content row, each call a
\* commit of its own
TagStep(tag, entity_type, delta) ==
  [kind |-> "tag", tag |-> tag, entity_type |-> entity_type, delta |-> delta]

IndexStep(entity_type, entity_id, title, content_text, tags) ==
  [kind |-> "index", entity_type |-> entity_type, entity_id |-> entity_id,
   title |-> title, content |-> content_text, tags |-> tags]

UnindexStep(entity_type, entity_id) ==
  [kind |-> "unindex", entity_type |-> entity_type, entity_id |-> entity_id]

\* for tag in tags: await TagService.update_tag_usage(db, tag, entity_type, delta)
TagSteps(tags, entity_type, delta) ==
  [i \in 1..Len(tags) |-> TagStep(tags[i], entity_type, delta)]

\* One of those calls on the tables db at instant t
ApplyStep(db, step, t) ==
  IF step.kind = "tag"
    THEN LET r == update_tag_usage(db.tag_usage, step.tag, step.entity_type,
                                   step.delta, t)
         IN [ok |-> r.ok, db |-> [db EXCEPT !.tag_usage = r.tag_usage]]
  ELSE IF step.kind = "index"
    THEN LET r == update_search_index(db.search_index, step.entity_type,
                                      step.entity_id, step.title, step.content,
                                      step.tags)
         IN [ok |-> r.ok, db |-> [db EXCEPT !.search_index = r.search_index]]
  ELSE [ok |-> TRUE,
        db |-> [db EXCEPT !.search_index =
                  delete_from_search_index(@, step.entity_type, step.entity_id)]]

\* The calls in order; the first that raises ends the handler
RECURSIVE RunSteps(_, _, _)
RunSteps(db, steps, t) ==
  IF steps = <<>> THEN [ok |-> TRUE, db |-> db]
  ELSE LET r == ApplyStep(db, Head(steps), t)
       IN IF r.ok THEN RunSteps(r.db, Tail(steps), t) ELSE r

\* What a service call comes to: how it ended ("ok", "ValueError" or "None"),
\* the tables after its commit of the content row, and the calls that follow
Served(outcome, db, steps) == [outcome |-> outcome, db |-> db, steps |-> steps]

\* ArticleService.create_article; id is the primary key uuid4 draws
create_article(db, author_id, title, summary, tags, published, id) ==
  IF tags # <<>> /\ (SetOf(tags) \ AI_TAGS # {} \/ Len(tags) > 5)
    THEN Served("ValueError", db, <<>>)
  ELSE LET article == Article(id, author_id, title, summary, tags,
                              IF published THEN "published" ELSE "draft")
       IN Served("ok", [db EXCEPT !.articles = @ \cup {article}],
                 (IF published /\ tags # <<>>
                    THEN TagSteps(tags, "article", 1) ELSE <<>>)
                 \o (IF published
                       THEN <<IndexStep("article", id, title, summary, tags)>>
                       ELSE <<>>))

\* The tag calls of update_article and update_space after the commit
TagDeltas(entity_type, original_on, current_on, original_tags, current_tags, order) ==
  IF original_on # current_on
    THEN IF current_on THEN TagSteps(current_tags, entity_type, 1)
         ELSE TagSteps(original_tags, entity_type, -1)
  ELSE IF current_on
    THEN TagSteps(Iterate(SetOf(original_tags) \ SetOf(current_tags), order),
                  entity_type, -1)
         \o TagSteps(Iterate(SetOf(current_tags) \ SetOf(original_tags), order),
                     entity_type, 1)
  ELSE <<>>

\* ArticleService.update_article; payload holds the arguments that are not None
update_article(db, article_id, user_id, payload, order) ==
  LET found == {a \in db.articles : a.id = article_id}
  IN IF found = {} THEN Served("None", db, <<>>)
     ELSE LET article == CHOOSE a \in found : TRUE
              original_tags == article.tags
              original_published == article.status = "published"
              a1 == IF Given(payload, "title")
                      THEN [article EXCEPT !.title = payload.title]
                      ELSE article
              a2 == IF Given(payload, "tags")
                      THEN [a1 EXCEPT !.tags = payload.tags]
                      ELSE a1
              a3 == IF ~ Given(payload, "published") THEN a2
                    ELSE IF payload.published /\ a2.status = "draft"
                      THEN [a2 EXCEPT !.status = "published"]
                    ELSE IF ~ payload.published /\ a2.status = "published"
                      THEN [a2 EXCEPT !.status = "draft"]
                    ELSE a2
              current_published == a3.status = "published"
          IN IF article.author_id # user_id THEN Served("None", db, <<>>)
             ELSE IF /\ Given(payload, "tags")
                     /\ (SetOf(payload.tags) \ AI_TAGS # {} \/ Len(payload.tags) > 5)
               THEN Served("ValueError", db, <<>>)
             ELSE Served("ok",
                    [db EXCEPT !.articles = (@ \ {article}) \cup {a3}],
                    TagDeltas("article", original_published, current_published,
                              original_tags, a3.tags, order)
                    \o (IF current_published
                          THEN <<IndexStep("article", a3.id, a3.title,
                                           a3.summary, a3.tags)>>
                        ELSE IF original_published
                          THEN <<UnindexStep("article", a3.id)>>
                        ELSE <<>>))

\* ArticleService.delete_article
delete_article(db, article_id, user_id) ==
  LET found == {a \in db.articles : a.id = article_id}
  IN IF found = {} THEN Served("None", db, <<>>)
     ELSE LET article == CHOOSE a \in found : TRUE
          IN IF article.author_id # user_id THEN Served("None", db, <<>>)
             ELSE Served("ok", [db EXCEPT !.articles = @ \ {article}],
                    IF article.status = "published"
                      THEN TagSteps(article.tags, "article", -1)
                           \o <<UnindexStep("article", article.id)>>
                      ELSE <<>>)

\* SpaceService.create_space
create_space(db, owner_id, data, id) ==
  LET space == [Space(id, owner_id, data.name, data.description, data.tags,
                      data.visibility)
                  EXCEPT !.members = {SpaceMember(owner_id, "owner")}]
  IN Served("ok", [db EXCEPT !.spaces = @ \cup {space}],
            (IF space.visibility = "public" /\ space.tags # <<>>
               THEN TagSteps(space.tags, "space", 1) ELSE <<>>)
            \o (IF space.visibility = "public"
                  THEN <<IndexStep("space", id, space.name, space.description,
                                   space.tags)>>
                  ELSE <<>>))

\* SpaceService.update_space; data holds the fields that are not None
update_space(db, space_id, data, order) ==
  LET found == {s \in db.spaces : s.id = space_id}
  IN IF found = {} THEN Served("None", db, <<>>)
     ELSE LET space == CHOOSE s \in found : TRUE
              original_public == space.visibility = "public"
              s1 == IF Given(data, "name")
                      THEN [space EXCEPT !.name = data.name] ELSE space
              s2 == IF Given(data, "tags")
                      THEN [s1 EXCEPT !.tags = data.tags] ELSE s1
              s3 == IF Given(data, "visibility")
                      THEN [s2 EXCEPT !.visibility = data.visibility] ELSE s2
              current_public == s3.visibility = "public"
          IN Served("ok", [db EXCEPT !.spaces = (@ \ {space}) \cup {s3}],
               TagDeltas("space", original_public, current_public, space.tags,
                         s3.tags, order)
               \o (IF current_public
                     THEN <<IndexStep("space", s3.id, s3.name, s3.description,
                                      s3.tags)>>
                   ELSE IF original_public
                     THEN <<UnindexStep("space", s3.id)>>
                   ELSE <<>>))

\* SpaceService.delete_space
delete_space(db, space_id) ==
  LET found == {s \in db.spaces : s.id = space_id}
  IN IF found = {} THEN Served("None", db, <<>>)
     ELSE LET space == CHOOSE s \in found : TRUE
          IN Served("ok", [db EXCEPT !.spaces = @ \ {space}],
               IF space.visibility = "public"
                 THEN TagSteps(space.tags, "space", -1)
                      \o <<UnindexStep("space", space.id)>>
                 ELSE <<>>)

-----------------------------------------------------------------------------
(* The state machine *)

NoRequest == [op |-> ""]
NoResponse == Response("", 0, "", NoToken, FALSE, 0)
NoCall == [fn |-> "", args |-> <<>>, result |-> <<>>]

ContentInit ==
  /\ username_changed = {}
  /\ tag_usage = [tag \in AI_TAGS |-> NoRow]
  /\ articles = {}
  /\ spaces = {}
  /\ search_index = EmptyBag
  /\ pending = <<>>
  /\ uuids = 0

Init ==
  /\ now = 0
  /\ users = {}
  /\ oauth_accounts = {}
  /\ attempts = EmptyBag
  /\ wire = {}
  /\ req = NoRequest
  /\ last = NoResponse
  /\ call = NoCall
  /\ ContentInit

\* The client keeps a cookie it is sent while it has room for it
Keep(W, token) ==
  IF token = NoToken \/ Cardinality(W) >= MaxWire THEN W ELSE W \cup {token}

\* secrets.token_urlsafe(8)
Nonces == {"nonce"}

Commit(r) ==
  /\ users' = r.users
  /\ oauth_accounts' = r.oauth_accounts
  /\ last' = r.resp
  /\ wire' = Keep(wire, r.resp.set_cookie)

SeedSampleUsers ==
  /\ users' = create_demo_users(users)
  /\ UNCHANGED content
  /\ UNCHANGED <<now, oauth_accounts, attempts, wire, req, last, call>>

SeedDemoUsers ==
  /\ users' = create_demo_data(users)
  /\ UNCHANGED content
  /\ UNCHANGED <<now, oauth_accounts, attempts, wire, req, last, call>>

Signup(email, password, client_ip) ==
  \E nonce \in Nonces :
    LET r == signup(users, oauth_accounts, attempts, now,
                    [email |-> email, password |-> password,
                     display_name |-> <<"Sign Up">>], client_ip, nonce)
    IN /\ req' = [op |-> "signup", email |-> email, password |-> password,
                  client_ip |-> client_ip]
       /\ Commit(r)
       /\ attempts' = r.attempts
       /\ UNCHANGED content
       /\ UNCHANGED <<now, call>>

Login(email, password, client_ip) ==
  \E nonce \in Nonces :
    LET r == login(users, oauth_accounts, attempts, now,
                   [email |-> email, password |-> password], client_ip, nonce)
    IN /\ req' = [op |-> "login", email |-> email, password |-> password,
                  client_ip |-> client_ip]
       /\ Commit(r)
       /\ attempts' = r.attempts
       /\ UNCHANGED content
       /\ UNCHANGED <<now, call>>

Logout ==
  /\ req' = [op |-> "logout"]
  /\ last' = logout
  /\ UNCHANGED content
  /\ UNCHANGED <<now, users, oauth_accounts, attempts, wire, call>>

Me(token) ==
  /\ req' = [op |-> "me", token |-> token]
  /\ last' = get_current_user(users, token, now)
  /\ UNCHANGED content
  /\ UNCHANGED <<now, users, oauth_accounts, attempts, wire, call>>

GithubLogin(state_value) ==
  LET r == github_login(now, state_value)
  IN /\ req' = [op |-> "github_login"]
     /\ last' = r.resp
     /\ wire' = Keep(wire, r.state_cookie)
     /\ UNCHANGED content
     /\ UNCHANGED <<now, users, oauth_accounts, attempts, call>>

GithubCallback(request, provider) ==
  \E nonce \in Nonces :
    LET r == github_callback(users, oauth_accounts, now, request, provider, nonce)
    IN /\ req' = [op |-> "github_callback", request |-> request]
       /\ Commit(r)
       /\ UNCHANGED content
       /\ UNCHANGED <<now, attempts, call>>

Tick(t) ==
  /\ t > now
  /\ now' = t
  /\ UNCHANGED content
  /\ UNCHANGED <<users, oauth_accounts, attempts, wire, req, last, call>>

-----------------------------------------------------------------------------
(* Direct calls of security.py, as the unit tests make them *)

IssueToken(user_id) ==
  \E nonce \in Nonces :
    LET issued == SessionTokenManager_issue(user_id, now, nonce)
    IN /\ call' = [fn |-> "issue", args |-> <<user_id, now>>, result |-> issued]
       /\ wire' = Keep(wire, issued.token)
       /\ UNCHANGED content
       /\ UNCHANGED <<now, users, oauth_accounts, attempts, req, last>>

VerifyToken(token) ==
  /\ call' = [fn |-> "verify", args |-> <<token, now>>,
              result |-> SessionTokenManager_verify(token, now)]
  /\ UNCHANGED content
  /\ UNCHANGED <<now, users, oauth_accounts, attempts, wire, req, last>>

VerifyPassword(stored_hash, password) ==
  /\ call' = [fn |-> "verify_password", args |-> <<stored_hash, password>>,
              result |-> verify_password(stored_hash, password)]
  /\ UNCHANGED content
  /\ UNCHANGED <<now, users, oauth_accounts, attempts, wire, req, last>>

-----------------------------------------------------------------------------
(* Requests to /users/me, made with the session of an existing user *)

GetMyProfile(user_id) ==
  /\ req' = [op |-> "get_my_profile", user |-> user_id]
  /\ \E current_user \in {u \in users : u.id = user_id} :
       last' = get_my_profile(users, current_user)
  /\ UNCHANGED content
  /\ UNCHANGED <<now, users, oauth_accounts, attempts, wire, call>>

UpdateMyProfile(user_id, payload) ==
  /\ req' = [op |-> "update_my_profile", user |-> user_id, payload |-> payload]
  /\ \E current_user \in {u \in users : u.id = user_id} :
       LET r == update_my_profile(users, current_user, payload, now)
       IN /\ users' = r.users
          /\ last' = r.resp
          /\ username_changed' = IF r.changed THEN username_changed \cup {user_id}
                                ELSE username_changed
  /\ UNCHANGED <<tag_usage, articles, spaces, search_index, pending, uuids>>
  /\ UNCHANGED <<now, oauth_accounts, attempts, wire, call>>

-----------------------------------------------------------------------------
(* What clients send *)

Ip1 == <<"10.0.0.1">>

LoginPasswords == {PasswordDemo, PasswordStrong}

SignupPasswords == {PasswordWeak, PasswordStrong}

AllPasswords == LoginPasswords \cup SignupPasswords

AuthEmails == {EmailNew, EmailNewUpper, EmailSarah, EmailSarahRaw, EmailAlex}

\* A signed value a client can make of one it holds without the secret key:
\* the signature stripped, the payload or the timestamp altered, or its own
\* signature under a key of its own
Tamper(token) ==
  IF "user_id" \in DOMAIN token.payload
    THEN [token EXCEPT !.payload.user_id = (@ % 2) + 1]
  ELSE IF "state" \in DOMAIN token.payload
    THEN [token EXCEPT !.payload.state = "s2"]
  ELSE token

Forgeries(W, t) ==
  {[token EXCEPT !.sig = <<>>] : token \in W}
    \cup {Tamper(token) : token \in W}
    \cup {[token EXCEPT !.ts = t] : token \in W}
    \cup {[token EXCEPT !.sig = Hmac("guess", SessionSalt, token.payload, token.ts)] :
            token \in W}

Cookies(W, t) == W \cup Forgeries(W, t) \cup {NoToken}

\* What GitHub answers with (github.py GitHubProfile)
ProfileSarah ==
  [id |-> "123", email |-> EmailSarahRaw, login |-> NameSarahchen,
   name |-> <<"Sarah Chen">>, avatar_url |-> "https://avatars/123"]

ProfileSarahMoved == [ProfileSarah EXCEPT !.email = EmailAlex]

ProfileNew ==
  [id |-> "456", email |-> EmailNew, login |-> NameNew, name |-> NoText,
   avatar_url |-> ""]

Profiles == {ProfileSarah, ProfileSarahMoved, ProfileNew}

Providers ==
  {[ok |-> TRUE, profile |-> p] : p \in Profiles}
    \cup {[ok |-> FALSE, profile |-> ProfileNew]}

CallbackRequest(code, state, state_cookie) ==
  [code |-> code, state |-> state, state_cookie |-> state_cookie]

\* Callbacks with both parameters and any cookie, and callbacks with a
\* parameter missing
Requests(W, t) ==
  {CallbackRequest("oauth-code", state, cookie) :
     state \in {"s1", "s2"}, cookie \in Cookies(W, t)}
    \cup {CallbackRequest("", "s1", cookie) : cookie \in W \cup {NoToken}}
    \cup {CallbackRequest("oauth-code", "", cookie) : cookie \in W \cup {NoToken}}

-----------------------------------------------------------------------------
(* Specifications *)

\* Password signup and login against the seeded tables, the clock standing
NextAuth ==
  \/ SeedSampleUsers
  \/ SeedDemoUsers
  \/ \E email \in AuthEmails, password \in SignupPasswords :
       BagCardinality(attempts) < MaxAttempts /\ Signup(email, password, Ip1)
  \/ \E email \in AuthEmails, password \in LoginPasswords :
       BagCardinality(attempts) < MaxAttempts /\ Login(email, password, Ip1)

SpecAuth == Init /\ [][NextAuth]_vars

OAuthInstants == {STATE_MAX_AGE_SECONDS, STATE_MAX_AGE_SECONDS + 1}

\* The GitHub flow against the seeded tables
NextOAuth ==
  \/ SeedSampleUsers
  \/ SeedDemoUsers
  \/ GithubLogin("s1")
  \/ \E request \in Requests(wire, now), provider \in Providers :
       GithubCallback(request, provider)
  \/ \E t \in OAuthInstants : Tick(t)

SpecOAuth == Init /\ [][NextOAuth]_vars

\* Bursts of requests against the limiter: who sends them and from where
LimiterClients ==
  {[email |-> EmailSarah, ip |-> Ip1], [email |-> EmailAlex, ip |-> Ip1],
   [email |-> EmailSarah, ip |-> None]}

LimiterInstants == {WindowSeconds, WindowSeconds + 1}

\* A burst starts once the tables are seeded, is of one kind of request and
\* goes one request past its limit
BurstOf(action) ==
  /\ Cardinality(users) = 2
  /\ BagCardinality(attempts) <= RateLimitRule(action, "email").limit
  /\ \A r \in BagToSet(attempts) : r.action = action

\* The scripts seed the tables in one order; the clock moves once, to the
\* end of the window or just past it
NextLimiter ==
  \/ SeedSampleUsers
  \/ users # {} /\ SeedDemoUsers
  \/ \E c \in LimiterClients, password \in SignupPasswords :
       BurstOf("signup") /\ Signup(c.email, password, c.ip)
  \/ \E c \in LimiterClients :
       BurstOf("login") /\ Login(c.email, PasswordStrong, c.ip)
  \/ \E t \in LimiterInstants : now = 0 /\ Tick(t)

SpecLimiter == Init /\ [][NextLimiter]_vars

TokenInstants == {max_age_seconds, max_age_seconds + 1}

UserIds == {1, 2}

\* security.py on its own: tokens issued for any id and what a client can
\* make of them, verified at any time
NextToken ==
  \/ \E user_id \in UserIds : IssueToken(user_id)
  \/ \E token \in Cookies(wire, now) : VerifyToken(token)
  \/ \E t \in TokenInstants : Tick(t)

SpecToken == Init /\ [][NextToken]_vars

\* dependencies.py: session tokens, state cookies and what a client can make
\* of them, presented as the session cookie at any time
NextSession ==
  \/ SeedSampleUsers
  \/ GithubLogin("s1")
  \/ \E user_id \in UserIds : IssueToken(user_id)
  \/ \E token \in Cookies(wire, now) : Me(token)
  \/ Logout
  \/ \E t \in TokenInstants : Tick(t)

SpecSession == Init /\ [][NextSession]_vars

\* What the password_hash column of a row can hold (String(512), nullable)
StoredHashes == {NoHash, MalformedHash, hash_password(PasswordDemo)}

StoredUser(stored_hash) ==
  User(1, SAMPLE_USER.email, stored_hash, SAMPLE_USER.display_name,
       SAMPLE_USER.username, NoText, "", "", "", "")

\* The users table as earlier writers may have left it
InitStored ==
  /\ now = 0
  /\ users \in {{}} \cup {{StoredUser(h)} : h \in StoredHashes}
  /\ oauth_accounts = {}
  /\ attempts = EmptyBag
  /\ wire = {}
  /\ req = NoRequest
  /\ last = NoResponse
  /\ call = NoCall
  /\ ContentInit

NextStored ==
  \/ \E email \in AuthEmails, password \in LoginPasswords :
       BagCardinality(attempts) < MaxAttempts /\ Login(email, password, Ip1)
  \/ \E stored_hash \in StoredHashes \ {NoHash}, password \in LoginPasswords :
       VerifyPassword(stored_hash, password)

SpecStored == InitStored /\ [][NextStored]_vars

\* The users of the migrated table
LegacyEmails == <<EmailAliceX, EmailAliceY, EmailCarol>>

ProfileUserIds == 1..Len(LegacyEmails)

\* Bodies of PATCH /users/me
ProfilePayloads ==
  {[username |-> n] : n \in {NameAlice, NameAlice1, NameBob, NameInvalidUpper}}
    \cup {[display_name |-> <<" ", "A", "l">>, username |-> NameAlice2],
          [expertise_tags |-> <<"LLMs", "Unknown">>]}

\* The table as the migration left it, before any request
InitProfile ==
  /\ now = 0
  /\ users = _backfill_usernames(LegacyEmails)
  /\ oauth_accounts = {}
  /\ attempts = EmptyBag
  /\ wire = {}
  /\ req = NoRequest
  /\ last = NoResponse
  /\ call = NoCall
  /\ ContentInit

\* routes/users.py: each user reads and updates the own profile
NextProfile ==
  \/ \E user_id \in ProfileUserIds : GetMyProfile(user_id)
  \/ \E user_id \in ProfileUserIds, payload \in ProfilePayloads :
       UpdateMyProfile(user_id, payload)

SpecProfile == InitProfile /\ [][NextProfile]_vars

\* A local part of USERNAME_MAX_LENGTH characters, and one that has a hyphen
\* where the slug is cut
NameLong == [i \in 1..USERNAME_MAX_LENGTH |-> "a"]
NameCutAtHyphen ==
  [i \in 1..(USERNAME_MAX_LENGTH + 1) |->
     IF i = USERNAME_MAX_LENGTH THEN "-" ELSE "a"]

AtX(local_part) == local_part \o <<"@", "x", ".", "c", "o", "m">>

\* The rows a users table may hold when the allocator is called
AllocatorRows ==
  {User(1, EmailAliceX, NoHash, NoText, NameAlice, NoText, "", "", "", ""),
   User(2, EmailAliceY, NoHash, NoText, NameAlice1, NoText, "", "", "", ""),
   User(3, EmailCarol, NoHash, NoText, NameAlice2, NoText, "", "", "", ""),
   User(4, AtX(NameLong), NoHash, NoText, NameLong, NoText, "", "", "", "")}

AllocatorEmails ==
  {EmailAliceX, EmailNew, AtX(NameLong), AtX(NameCutAtHyphen), EmailSarahRaw}

InitAllocator ==
  /\ now = 0
  /\ users \in SUBSET AllocatorRows
  /\ oauth_accounts = {}
  /\ attempts = EmptyBag
  /\ wire = {}
  /\ req = NoRequest
  /\ last = NoResponse
  /\ call = NoCall
  /\ ContentInit

GenerateUniqueUsername(email, exclude_user_id) ==
  /\ call' = [fn |-> "generate_unique_username",
              args |-> <<email, exclude_user_id>>,
              result |-> generate_unique_username(users, email, exclude_user_id)]
  /\ UNCHANGED content
  /\ UNCHANGED <<now, users, oauth_accounts, attempts, wire, req, last>>

\* usernames.py on its own: the allocator called on any table
NextAllocator ==
  \E email \in AllocatorEmails, exclude_user_id \in {NoUser} \cup 1..4 :
    GenerateUniqueUsername(email, exclude_user_id)

SpecAllocator == InitAllocator /\ [][NextAllocator]_vars

\* GitHub accounts of users the tables know: the login equals the stored
\* username (alice), or a username of full length (alice@y.com after a
\* profile update)
ProfileAlice ==
  [id |-> "789", email |-> EmailAliceX, login |-> NameAlice, name |-> NoText,
   avatar_url |-> "https://avatars/789"]

ProfileLong == [ProfileAlice EXCEPT !.id = "790", !.email = EmailAliceY,
                                    !.login = NameLong]

\* A new GitHub account whose login has capitals
ProfileCapitals == [ProfileNew EXCEPT !.id = "457", !.login = NameInvalidUpper]

NamesProfiles == {ProfileSarah, ProfileAlice, ProfileLong, ProfileCapitals}

\* Bodies of PATCH /users/me: a username, with or without the profile texts
\* that the callback would otherwise ask GitHub for
NamesPayloads ==
  {[username |-> n] : n \in {NameInvalidUpper, NameCutAtHyphen}}
    \cup {[bio |-> "bio", company |-> "company", location |-> "location"],
          [username |-> NameLong, bio |-> "bio", company |-> "company",
           location |-> "location"]}

\* Every way a username is stored: the migration, the seeding script,
\* signup, the GitHub callback and the profile update
NextNames ==
  \/ SeedSampleUsers
  \/ BagCardinality(attempts) < MaxAttempts
       /\ Signup(EmailNew, PasswordStrong, Ip1)
  \/ GithubLogin("s1")
  \/ \E cookie \in wire, p \in NamesProfiles :
       GithubCallback(CallbackRequest("oauth-code", "s1", cookie),
                      [ok |-> TRUE, profile |-> p])
  \/ \E user_id \in {1, 2}, payload \in NamesPayloads :
       UpdateMyProfile(user_id, payload)

SpecNames == InitProfile /\ [][NextNames]_vars

-----------------------------------------------------------------------------
(* services/tag_service.py on its own *)

TagInputs == AI_TAGS \cup {"Hiking"}

\* One call of TagService.update_tag_usage; the row it found is kept in call
UpdateTagUsage(tag, entity_type, delta) ==
  LET r == update_tag_usage(tag_usage, tag, entity_type, delta, now)
      found == IF tag \in AI_TAGS THEN tag_usage[tag] ELSE NoRow
  IN /\ IF delta > 0 /\ found # NoRow THEN found.month_count < MaxCount ELSE TRUE
     /\ call' = [fn |-> "update_tag_usage",
                 args |-> <<tag, entity_type, delta, found>>,
                 result |-> r.ok]
     /\ tag_usage' = r.tag_usage
     /\ UNCHANGED <<username_changed, articles, spaces, search_index, pending, uuids>>
     /\ UNCHANGED <<now, users, oauth_accounts, attempts, wire, req, last>>

CalculateTrendingScores ==
  /\ call' = [fn |-> "calculate_trending_scores", args |-> <<now>>,
              result |-> TRUE]
  /\ tag_usage' = calculate_trending_scores(tag_usage, now)
  /\ UNCHANGED <<username_changed, articles, spaces, search_index, pending, uuids>>
  /\ UNCHANGED <<now, users, oauth_accounts, attempts, wire, req, last>>

ResetPeriodicCounts(period) ==
  /\ call' = [fn |-> "reset_periodic_counts", args |-> <<period>>,
              result |-> TRUE]
  /\ tag_usage' = reset_periodic_counts(tag_usage, period)
  /\ UNCHANGED <<username_changed, articles, spaces, search_index, pending, uuids>>
  /\ UNCHANGED <<now, users, oauth_accounts, attempts, wire, req, last>>

\* A tag_usage table in which some tags have their row, nothing counted yet
InitTagUsage ==
  /\ now = 0
  /\ users = {}
  /\ oauth_accounts = {}
  /\ attempts = EmptyBag
  /\ wire = {}
  /\ req = NoRequest
  /\ last = NoResponse
  /\ call = NoCall
  /\ username_changed = {}
  /\ tag_usage \in [AI_TAGS -> {NoRow} \cup {TagUsageDefaults(tag) : tag \in AI_TAGS}]
  /\ \A tag \in AI_TAGS : tag_usage[tag] # NoRow => tag_usage[tag].tag = tag
  /\ articles = {}
  /\ spaces = {}
  /\ search_index = EmptyBag
  /\ pending = <<>>
  /\ uuids = 0

\* Any sequence of update_tag_usage calls
NextTagUsage ==
  \E tag \in TagInputs, entity_type \in EntityKinds, delta \in {1, -1} :
    UpdateTagUsage(tag, entity_type, delta)

SpecTagUsage == InitTagUsage /\ [][NextTagUsage]_vars

-----------------------------------------------------------------------------
(* TagService.calculate_trending_scores on its own *)

HoursPerWeek == 168

\* Instants on whole hours: two weeks and one week before the first run of the
\* job, the run itself, and later runs
TrendingStart == 2 * HoursPerWeek * SecondsPerHour

UsedInstants == {0, HoursPerWeek * SecondsPerHour, TrendingStart}

LaterInstants == {TrendingStart + SecondsPerHour, 2 * TrendingStart}

\* week_count and month_count as +1 deltas and resets leave them
PeriodCounts == {<<0, 0>>, <<0, 1>>, <<1, 1>>, <<1, 5>>, <<3, 5>>}

\* Rows as update_tag_usage and reset_periodic_counts leave them: a tag never
\* used has nothing counted
TrendingRows(tag) ==
  {TagUsageDefaults(tag)}
    \cup {TagUsage(tag, a, 0, u, used, 0, p[1], p[2]) :
            a \in 0..1, u \in 0..1, used \in UsedInstants, p \in PeriodCounts}

InitTrending ==
  /\ now = TrendingStart
  /\ users = {}
  /\ oauth_accounts = {}
  /\ attempts = EmptyBag
  /\ wire = {}
  /\ req = NoRequest
  /\ last = NoResponse
  /\ call = NoCall
  /\ username_changed = {}
  /\ tag_usage \in [AI_TAGS -> UNION {TrendingRows(tag) : tag \in AI_TAGS}]
  /\ \A tag \in AI_TAGS : tag_usage[tag].tag = tag
  /\ articles = {}
  /\ spaces = {}
  /\ search_index = EmptyBag
  /\ pending = <<>>
  /\ uuids = 0

\* The periodic jobs, run at any instant
NextTrending ==
  \/ CalculateTrendingScores
  \/ \E period \in {"week", "month"} : ResetPeriodicCounts(period)
  \/ \E t \in LaterInstants : Tick(t)

SpecTrending == InitTrending /\ [][NextTrending]_vars

-----------------------------------------------------------------------------
(* Two requests in TagService.update_tag_usage at the same time *)

\* A call of update_tag_usage in flight: at its select, at its commit, or ended
TagCall(tag, entity_type, delta) ==
  [tag |-> tag, entity_type |-> entity_type, delta |-> delta, at |-> "select",
   selected |-> NoRow]

\* await db.execute(select(TagUsage).where(TagUsage.tag == tag)); without a
\* row the call raises before its commit
SelectTagUsage(i) ==
  LET p == pending[i]
  IN /\ p.at = "select"
     /\ pending' = [pending EXCEPT ![i].selected = tag_usage[p.tag],
                                   ![i].at = IF tag_usage[p.tag] = NoRow
                                               THEN "raised" ELSE "commit"]
     /\ UNCHANGED <<username_changed, tag_usage, articles, spaces, search_index, uuids>>
     /\ UNCHANGED <<now, users, oauth_accounts, attempts, wire, req, last, call>>

\* await db.commit()
FlushTagUsage(i) ==
  LET p == pending[i]
      r == CommitTagUsage(tag_usage, p.selected, p.tag, p.entity_type, p.delta, now)
  IN /\ p.at = "commit"
     /\ tag_usage' = r.tag_usage
     /\ pending' = [pending EXCEPT ![i].at = "returned"]
     /\ UNCHANGED <<username_changed, articles, spaces, search_index, uuids>>
     /\ UNCHANGED <<now, users, oauth_accounts, attempts, wire, req, last, call>>

\* Rows of the tag with something counted, and no row
RaceRows(tag) ==
  {NoRow} \cup {TagUsage(tag, n, n, n, NeverUsed, 0, 0, 0) : n \in 0..MaxCount}

\* Two calls for one tag and one entity kind arrive; req keeps the table as
\* they found it
InitRace ==
  /\ now = SecondsPerHour
  /\ users = {}
  /\ oauth_accounts = {}
  /\ attempts = EmptyBag
  /\ wire = {}
  /\ last = NoResponse
  /\ call = NoCall
  /\ username_changed = {}
  /\ \E row \in RaceRows("RAG") :
       tag_usage = [tag \in AI_TAGS |-> IF tag = "RAG" THEN row ELSE NoRow]
  /\ req = [op |-> "update_tag_usage", found |-> tag_usage]
  /\ \E entity_type \in EntityKinds, first \in {1, -1}, second \in {1, -1} :
       pending = <<TagCall("RAG", entity_type, first),
                   TagCall("RAG", entity_type, second)>>
  /\ articles = {}
  /\ spaces = {}
  /\ search_index = EmptyBag
  /\ uuids = 0

NextRace ==
  \/ \E i \in 1..Len(pending) : SelectTagUsage(i)
  \/ \E i \in 1..Len(pending) : FlushTagUsage(i)

SpecRace == InitRace /\ [][NextRace]_vars

-----------------------------------------------------------------------------
(* routes/articles.py, routes/spaces.py *)

Database == Tables(articles, spaces, tag_usage, search_index)

\* The answer of a route to what its service call came to
StatusOf(outcome, done) ==
  IF outcome = "ok" THEN done ELSE IF outcome = "ValueError" THEN 400 ELSE 404

\* A handler around one service call c.  In one piece: the commit of the
\* content row and every call after it, up to the first that raises (500).
\* Stepwise: the commit of the content row now, the calls after it left in
\* pending, each to be committed on its own.
Serve(request, c, done, stepwise) ==
  /\ req' = request
  /\ IF c.outcome # "ok" \/ (stepwise /\ c.steps = <<>>)
       THEN /\ last' = [op |-> request.op, status |-> StatusOf(c.outcome, done)]
            /\ articles' = c.db.articles
            /\ spaces' = c.db.spaces
            /\ UNCHANGED <<tag_usage, search_index, pending>>
     ELSE IF stepwise
       THEN /\ Len(pending) < MaxInFlight
            /\ last' = [op |-> request.op, status |-> 0]
            /\ articles' = c.db.articles
            /\ spaces' = c.db.spaces
            /\ pending' = Append(pending, [op |-> request.op, done |-> done,
                                           steps |-> c.steps])
            /\ UNCHANGED <<tag_usage, search_index>>
     ELSE LET r == RunSteps(c.db, c.steps, now)
          IN /\ last' = [op |-> request.op,
                         status |-> IF r.ok THEN done ELSE 500]
             /\ articles' = r.db.articles
             /\ spaces' = r.db.spaces
             /\ tag_usage' = r.db.tag_usage
             /\ search_index' = r.db.search_index
             /\ UNCHANGED pending
  /\ UNCHANGED <<now, users, oauth_accounts, attempts, wire, call, username_changed>>

\* The sequence s without its i-th element
Without(s, i) == SubSeq(s, 1, i - 1) \o SubSeq(s, i + 1, Len(s))

\* The next commit of the i-th request in flight; a call that raises ends the
\* request with the calls after it not made
Step(i) ==
  LET p == pending[i]
      r == ApplyStep(Database, Head(p.steps), now)
  IN /\ req' = [op |-> "step", of |-> p.op]
     /\ tag_usage' = r.db.tag_usage
     /\ search_index' = r.db.search_index
     /\ IF ~ r.ok
          THEN /\ pending' = Without(pending, i)
               /\ last' = [op |-> p.op, status |-> 500]
        ELSE IF Len(p.steps) = 1
          THEN /\ pending' = Without(pending, i)
               /\ last' = [op |-> p.op, status |-> p.done]
        ELSE /\ pending' = [pending EXCEPT ![i].steps = Tail(@)]
             /\ last' = [op |-> p.op, status |-> 0]
     /\ UNCHANGED <<articles, spaces, uuids>>
     /\ UNCHANGED <<now, users, oauth_accounts, attempts, wire, call, username_changed>>

\* POST /api/articles: always a draft
CreateArticle(user_id, title, tags, stepwise) ==
  LET c == create_article(Database, user_id, title, "", tags, FALSE, uuids + 1)
  IN /\ uuids < MaxContent
     /\ uuids' = IF c.outcome = "ok" THEN uuids + 1 ELSE uuids
     /\ Serve([op |-> "create_article"], c, 201, stepwise)

\* PATCH /api/articles/{id}, POST /api/articles/{id}/publish and /unpublish
UpdateArticle(user_id, id, payload, order, stepwise) ==
  /\ UNCHANGED uuids
  /\ Serve([op |-> "update_article"],
           update_article(Database, id, user_id, payload, order),
           200, stepwise)

\* DELETE /api/articles/{id}
DeleteArticle(user_id, id, stepwise) ==
  /\ UNCHANGED uuids
  /\ Serve([op |-> "delete_article"],
           delete_article(Database, id, user_id), 204, stepwise)

\* POST /api/spaces
CreateSpace(user_id, data, stepwise) ==
  /\ uuids < MaxContent
  /\ uuids' = uuids + 1
  /\ Serve([op |-> "create_space"],
           create_space(Database, user_id, data, uuids + 1), 201, stepwise)

\* PATCH /api/spaces/{id}: the route answers 404 or 403 before the service
OwnedSpace(user_id, id) ==
  \E s \in spaces : s.id = id /\ s.owner_id = user_id

UpdateSpace(user_id, id, data, order, stepwise) ==
  /\ UNCHANGED uuids
  /\ Serve([op |-> "update_space"],
           IF OwnedSpace(user_id, id)
             THEN update_space(Database, id, data, order)
             ELSE Served("None", Database, <<>>),
           200, stepwise)

\* DELETE /api/spaces/{id}
DeleteSpace(user_id, id, stepwise) ==
  /\ UNCHANGED uuids
  /\ Serve([op |-> "delete_space"],
           IF OwnedSpace(user_id, id)
             THEN delete_space(Database, id)
             ELSE Served("None", Database, <<>>),
           204, stepwise)

ContentUserIds == {1, 2}

ContentIds == 1..MaxContent

ArticleTagLists == {<<>>, <<"RAG">>, <<"LLMs", "RAG">>, <<"Hiking">>}

ArticlePayloads ==
  {[title |-> "t2"], [published |-> TRUE], [published |-> FALSE],
   [tags |-> <<"RAG">>, published |-> TRUE]}
    \cup {[tags |-> tags] : tags \in ArticleTagLists}

SpaceTagLists == {<<>>, <<"RAG">>, <<"Hiking", "LLMs">>}

SpaceCreates ==
  {[name |-> "s1", description |-> "", tags |-> tags, visibility |-> visibility] :
     tags \in SpaceTagLists, visibility \in {"public", "private"}}

SpacePayloads ==
  {[name |-> "s2"], [visibility |-> "public"], [visibility |-> "private"]}
    \cup {[tags |-> tags] : tags \in SpaceTagLists}

\* Two of the orders in which the iteration of a set of tags may yield them
TagOrders == {<<"Hiking", "LLMs", "RAG">>, <<"RAG", "LLMs", "Hiking">>}

ExpertisePayloads == {[expertise_tags |-> <<"LLMs">>], [expertise_tags |-> <<>>]}

\* The requests of the content routes, in the given mode
ContentRequests(stepwise) ==
  \/ \E user_id \in {1}, tags \in ArticleTagLists :
       CreateArticle(user_id, "t1", tags, stepwise)
  \/ \E user_id \in ContentUserIds, id \in ContentIds,
        payload \in ArticlePayloads, order \in TagOrders :
       UpdateArticle(user_id, id, payload, order, stepwise)
  \/ \E user_id \in ContentUserIds, id \in ContentIds :
       DeleteArticle(user_id, id, stepwise)
  \/ \E user_id \in {1}, data \in SpaceCreates :
       CreateSpace(user_id, data, stepwise)
  \/ \E user_id \in ContentUserIds, id \in ContentIds,
        data \in SpacePayloads, order \in TagOrders :
       UpdateSpace(user_id, id, data, order, stepwise)
  \/ \E user_id \in ContentUserIds, id \in ContentIds :
       DeleteSpace(user_id, id, stepwise)

\* Requests served one after the other, each handler run to its end
NextContent ==
  \/ ContentRequests(FALSE)
  \/ \E payload \in ExpertisePayloads : UpdateMyProfile(1, payload)

SpecContent == InitProfile /\ [][NextContent]_vars

\* Requests served at the same time: every commit is a step of its own
NextCommits ==
  \/ ContentRequests(TRUE)
  \/ \E i \in 1..Len(pending) : Step(i)

SpecCommits == InitProfile /\ [][NextCommits]_vars

-----------------------------------------------------------------------------
(* Properties.  The terms they are stated in: *)

\* The rows of auth_attempts for one action and one key whose created_at
\* lies in the trailing window [now - W, now]
Trailing(action, scope, key) ==
  LET inside == {r \in BagToSet(attempts) :
                   /\ r.action = action
                   /\ (IF scope = "email" THEN r.email_hash ELSE r.ip_address) = key
                   /\ now - r.created_at <= WindowSeconds}
  IN BagCardinality([r \in inside |-> attempts[r]])

LimitOf(action) == IF action = "signup" THEN SignupLimit ELSE LoginLimit

\* Some key of the request has its limit of rows in the trailing window
AtLimit(action, email, ip) ==
  \/ Trailing(action, "email", hash_email(email)) >= LimitOf(action)
  \/ ip # None /\ Trailing(action, "ip", ip) >= LimitOf(action)

EmailTaken(email) == \E u \in users : u.email = normalize_email(email)

(* C1, weak-password signups set aside: for either action and either scope, *)
(* a login, or a signup whose password passes the strength check, is        *)
(* answered 429 exactly when one of its keys (the hashed email, the client  *)
(* IP if known) already has L rows of that action in the trailing window W; *)
(* so the attempt after L others is rejected, and an attempt made after W   *)
(* has passed since them is accepted by the limiter.                        *)
C1_LimiterDecides ==
  [][\A c \in LimiterClients, password \in AllPasswords :
       /\ (_password_strength_ok(password) /\ Signup(c.email, password, c.ip))
            => (last'.status = 429 <=> AtLimit("signup", c.email, c.ip))
       /\ Login(c.email, password, c.ip)
            => (last'.status = 429 <=> AtLimit("login", c.email, c.ip))]_vars

\* A login is accepted by the limiter just after the window has passed over
\* the L rows that had exhausted its email's limit
C1_AcceptedAfterWindow ==
  /\ now = WindowSeconds + 1
  /\ \E r \in BagToSet(attempts) :
       /\ r.action = "login" /\ r.created_at = 0
       /\ CopiesIn(r, attempts) >= LoginLimit
       /\ \E q \in BagToSet(attempts) :
            /\ q.action = "login" /\ q.email_hash = r.email_hash
            /\ q.created_at = now /\ q.reason = "invalid_credentials"
  /\ last.status = 401

(* C1 as stated: every signup or login attempt, whatever its password, is   *)
(* answered 429 once one of its keys has L rows of its action in the        *)
(* trailing window, and is accepted by the limiter otherwise.               *)
C1_EveryAttemptLimited ==
  [][\A c \in LimiterClients, password \in AllPasswords :
       /\ Signup(c.email, password, c.ip)
            => (last'.status = 429 <=> AtLimit("signup", c.email, c.ip))
       /\ Login(c.email, password, c.ip)
            => (last'.status = 429 <=> AtLimit("login", c.email, c.ip))]_vars

(* C2 as stated: every signup or login request appends exactly one row to   *)
(* auth_attempts, whatever its outcome, and leaves the rows already there   *)
(* as they are.                                                             *)
C2_EveryRequestLogged ==
  [][\A email \in AuthEmails, password \in AllPasswords :
       (Signup(email, password, Ip1) \/ Login(email, password, Ip1))
         => /\ attempts \sqsubseteq attempts'
            /\ BagCardinality(attempts') = BagCardinality(attempts) + 1]_vars

\* The callback's parameters or state cookie are ones the claim C3 lists: a
\* parameter missing, no cookie, a signature the service did not make, a
\* cookie older than its lifetime, a state other than the cookie's
StateCheckFails(request) ==
  \/ request.code = ""
  \/ request.state = ""
  \/ request.state_cookie = NoToken
  \/ request.state_cookie.sig # Hmac(SecretKey, StateSalt,
                                     request.state_cookie.payload,
                                     request.state_cookie.ts)
  \/ now - request.state_cookie.ts > STATE_MAX_AGE_SECONDS
  \/ request.state_cookie.payload.state # request.state

(* C3: a GitHub callback whose code or state parameter is missing, whose    *)
(* state cookie is missing, badly signed or older than 10 minutes, or whose *)
(* state differs from the cookie's, is answered with a 4xx, leaves users    *)
(* and oauth_accounts unchanged, and never reaches the provider.  (req' is  *)
(* the request of the step.)                                                *)
C3_BadCallbackRejected ==
  [][\A provider \in Providers :
       (req'.op = "github_callback"
          /\ GithubCallback(req'.request, provider)
          /\ StateCheckFails(req'.request))
         => /\ last'.status \in 400..499
            /\ users' = users
            /\ oauth_accounts' = oauth_accounts
            /\ ~ last'.provider_called]_vars

\* A callback was refused for its state while the client held a state cookie
\* that had outlived its lifetime, with users in the table
C3_ExpiredStateRefused ==
  /\ req.op = "github_callback"
  /\ req.request.code # "" /\ req.request.state = "s1"
  /\ req.request.state_cookie \in wire
  /\ "state" \in DOMAIN req.request.state_cookie.payload
  /\ now - req.request.state_cookie.ts > STATE_MAX_AGE_SECONDS
  /\ last.status = 400 /\ last.detail = "Invalid OAuth state"
  /\ users # {}

(* C4 as stated: a callback that passes the state check and gets a profile  *)
(* from the provider logs in the owner of the OAuthAccount of the provider  *)
(* id if there is one, else links the user with the normalized email        *)
(* without creating a user, else creates a user and its OAuthAccount; the   *)
(* session token is for that user and the account is owned by that user.    *)
C4_ReconcileOrder ==
  [][\A provider \in Providers :
       (req'.op = "github_callback"
          /\ GithubCallback(req'.request, provider)
          /\ ~ StateCheckFails(req'.request)
          /\ provider.ok)
         => LET profile == provider.profile
                email == normalize_email(profile.email)
                linked == {a \in oauth_accounts :
                             a.provider = "github"
                             /\ a.provider_account_id = profile.id}
                known == {u \in users : u.email = email}
                ids == {u.id : u \in users}
                owner == IF linked # {} THEN {a.user_id : a \in linked}
                         ELSE IF known # {} THEN {u.id : u \in known}
                         ELSE {u.id : u \in {v \in users' : v.email = email}} \ ids
            IN /\ Cardinality(owner) = 1
               /\ \A id \in owner :
                    /\ last'.set_cookie # NoToken
                    /\ last'.set_cookie.payload.user_id = id
                    /\ \E a \in oauth_accounts' :
                         a.provider_account_id = profile.id /\ a.user_id = id
               /\ linked # {} =>
                    {u.id : u \in users'} = ids /\ oauth_accounts' = oauth_accounts
               /\ (linked = {} /\ known # {}) =>
                    /\ {u.id : u \in users'} = ids
                    /\ Cardinality(oauth_accounts') = Cardinality(oauth_accounts) + 1
               /\ (linked = {} /\ known = {}) =>
                    /\ Cardinality(users') = Cardinality(users) + 1
                    /\ Cardinality(oauth_accounts') = Cardinality(oauth_accounts) + 1]_vars

(* C5, for signups that get as far as the duplicate check: a signup with a  *)
(* password that passes the strength check, within the rate limits, for an  *)
(* email that already belongs to a user is answered with the generic        *)
(* signup error, adds exactly one row (success false, reason                *)
(* duplicate_email) and leaves the users table as it is.                    *)
C5_DuplicateSignup ==
  [][\A c \in LimiterClients, password \in SignupPasswords :
       (Signup(c.email, password, c.ip) /\ EmailTaken(c.email)
          /\ _password_strength_ok(password)
          /\ ~ AtLimit("signup", c.email, c.ip))
         => /\ last'.status = 400
            /\ last'.detail = SIGNUP_GENERIC_ERROR
            /\ attempts' = attempts (+) SetToBag({AuthAttempt("signup",
                             hash_email(c.email), c.ip, FALSE,
                             "duplicate_email", now)})
            /\ users' = users]_vars

\* A signup for a taken email, from a client whose IP is unknown, has been
\* refused and logged as duplicate_email
C5_DuplicateLogged ==
  /\ req.op = "signup" /\ EmailTaken(req.email) /\ req.client_ip = None
  /\ last.status = 400 /\ last.detail = SIGNUP_GENERIC_ERROR
  /\ \E r \in BagToSet(attempts) :
       /\ r.action = "signup" /\ r.email_hash = hash_email(req.email)
       /\ r.ip_address = None /\ r.reason = "duplicate_email" /\ ~ r.success
       /\ r.created_at = now

(* C5 as stated: any signup for an email that already belongs to a user is  *)
(* answered with the generic signup error, adds exactly one row (success    *)
(* false, reason duplicate_email) and leaves the users table as it is.      *)
C5_AnyDuplicateSignup ==
  [][\A c \in LimiterClients, password \in SignupPasswords :
       (Signup(c.email, password, c.ip) /\ EmailTaken(c.email))
         => /\ last'.status = 400
            /\ last'.detail = SIGNUP_GENERIC_ERROR
            /\ attempts' = attempts (+) SetToBag({AuthAttempt("signup",
                             hash_email(c.email), c.ip, FALSE,
                             "duplicate_email", now)})
            /\ users' = users]_vars

(* C6 as stated: a signup with an unused email and an acceptable password,  *)
(* within the rate limits, is answered 201, adds exactly one user, whose    *)
(* username derives from the local part of the email ("a" for a@b.com),     *)
(* and adds exactly one row with success true.                              *)
C6_SignupCreatesUser ==
  [][\A email \in AuthEmails, password \in SignupPasswords :
       (Signup(email, password, Ip1) /\ ~ EmailTaken(email)
          /\ _password_strength_ok(password)
          /\ ~ AtLimit("signup", email, Ip1))
         => /\ last'.status = 201
            /\ \E u \in users' :
                 /\ u \notin users /\ users' = users \cup {u}
                 /\ u.email = normalize_email(email)
                 /\ u.username = LocalPart(u.email)
            /\ \E r \in BagToSet(attempts') :
                 r.success /\ attempts' = attempts (+) SetToBag({r})]_vars

\* A session token the service has issued
Issued(token) ==
  \E user_id \in UserIds, t \in {0} \cup TokenInstants, nonce \in Nonces :
    token = SessionTokenManager_issue(user_id, t, nonce).token

(* C7: for every user id, verifying a token at the time it is issued gives  *)
(* claims with that user id and expires_at later than issued_at; verifying  *)
(* an issued token more than max_age_seconds after its issue gives invalid, *)
(* and until then gives the claims it was issued with.                      *)
C7_TokenRoundTrip ==
  [][/\ \A user_id \in UserIds :
          IssueToken(user_id) =>
            LET claims == SessionTokenManager_verify(call'.result.token, now)
            IN /\ claims.kind = "claims"
               /\ claims.user_id = user_id
               /\ claims.expires_at > claims.issued_at
     /\ \A token \in wire :
          (VerifyToken(token) /\ Issued(token)) =>
            IF now - token.payload.iat > max_age_seconds
              THEN call'.result.kind = "invalid"
            ELSE /\ call'.result.kind = "claims"
                 /\ call'.result.user_id = token.payload.user_id
                 /\ call'.result.expires_at > call'.result.issued_at]_vars

\* An issued token has been verified after its lifetime and found invalid
C7_ExpiredTokenVerified ==
  /\ call.fn = "verify"
  /\ call.args[1] \in wire
  /\ Issued(call.args[1])
  /\ call.args[2] = now
  /\ now - call.args[1].payload.iat > max_age_seconds
  /\ call.result.kind = "invalid"

\* An issued token within its lifetime
Fresh(token) ==
  /\ Issued(token)
  /\ token.payload.iat <= now
  /\ now - token.payload.iat <= max_age_seconds

(* C8: whatever cookie GET /me is sent, verifying it raises nothing and     *)
(* gives invalid if it is unsigned, tampered with, signed for another        *)
(* purpose or expired; the request is answered 200, for the token's user,   *)
(* only with an issued, unexpired token whose user is in the table, and 401 *)
(* "Not authenticated" otherwise.  (req' is the request of the step.)       *)
C8_InvalidTokensRefused ==
  [][(req'.op = "me" /\ Me(req'.token)) =>
       LET token == req'.token IN
       /\ ~ Fresh(token) => SessionTokenManager_verify(token, now).kind = "invalid"
       /\ IF Fresh(token) /\ \E u \in users : u.id = token.payload.user_id
            THEN last'.status = 200 /\ last'.user = token.payload.user_id
          ELSE last'.status = 401 /\ last'.detail = NOT_AUTHENTICATED]_vars

\* A state cookie, validly signed for its own purpose, has been presented as
\* a session cookie to GET /me and refused, with a user in the table
C8_StateCookieRefused ==
  /\ req.op = "me"
  /\ req.token \in wire
  /\ "state" \in DOMAIN req.token.payload
  /\ req.token = _encode_state(req.token.payload.state, req.token.ts)
  /\ users # {}
  /\ last.status = 401 /\ last.detail = NOT_AUTHENTICATED

\* The password is the one of the user with this email
CredentialsMatch(email, password) ==
  \E u \in users :
    u.email = normalize_email(email) /\ u.password_hash = hash_password(password)

(* C9 as stated: a login that does not present the password of an existing  *)
(* user, within the rate limits, is answered 401 "Invalid credentials",     *)
(* sets no cookie and adds one row with reason invalid_credentials, be it   *)
(* that no user has the email, the password is wrong, the user has no       *)
(* password hash, or the stored hash is malformed.                          *)
C9_UniformLoginFailure ==
  [][\A email \in AuthEmails, password \in LoginPasswords :
       (Login(email, password, Ip1) /\ ~ CredentialsMatch(email, password)
          /\ ~ AtLimit("login", email, Ip1))
         => /\ last'.status = 401
            /\ last'.detail = INVALID_CREDENTIALS
            /\ last'.set_cookie = NoToken
            /\ attempts' = attempts (+) SetToBag({AuthAttempt("login",
                             hash_email(email), Ip1, FALSE,
                             "invalid_credentials", now)})]_vars

(* C10 as stated: verify_password raises nothing; it returns true exactly   *)
(* when the stored hash is well formed and is the hash of the password, and *)
(* false otherwise, a malformed stored hash included.                       *)
C10_VerifyPasswordTotal ==
  call.fn = "verify_password" =>
    /\ call.result \in {"True", "False"}
    /\ call.result = "True" <=> call.args[1] = hash_password(call.args[2])

-----------------------------------------------------------------------------
(* Usernames *)

\* The request asks user_id for a username other than the stored one
AsksOtherUsername(user_id, payload) ==
  /\ Given(payload, "username")
  /\ normalize_username(payload.username).ok
  /\ \E u \in users : /\ u.id = user_id
                      /\ u.username # normalize_username(payload.username).value

(* C11 as stated: once a PATCH /users/me of a user has changed the username, *)
(* every later PATCH of that user that asks for a different username is      *)
(* answered 400 "Username can only be set once" and changes nothing,         *)
(* whatever other users did to their usernames in between.                   *)
C11_UsernameSetOnce ==
  [][(/\ req'.op = "update_my_profile"
      /\ req'.user \in username_changed
      /\ AsksOtherUsername(req'.user, req'.payload))
       => /\ last'.status = 400
          /\ last'.detail = USERNAME_SET_ONCE
          /\ users' = users]_vars

(* C12 as stated: GET /users/me reports the username as still generated     *)
(* (usernameEditable true) for a user who never changed the username and    *)
(* as not generated after an explicit change, whatever the other users did. *)
C12_StillGenerated ==
  [][req'.op = "get_my_profile"
       => /\ last'.status = 200
          /\ last'.username_editable = (req'.user \notin username_changed)]_vars

\* base-k: the base, cut to leave room for the suffix, and the suffix
Suffixed(base, k) ==
  LET suffix == <<"-">> \o IntToStr(k)
  IN (IF Len(base) + Len(suffix) <= USERNAME_MAX_LENGTH THEN base
      ELSE RStripHyphens(Prefix(base, USERNAME_MAX_LENGTH - Len(suffix))))
       \o suffix

\* The usernames held by users other than the excluded one
HeldByOthers(exclude_user_id) ==
  {u.username : u \in {v \in users : v.id # exclude_user_id}}

(* C13: generate_unique_username returns the base normalized from the local *)
(* part of the email when no other user holds it, and otherwise base-k for  *)
(* the smallest k >= 1 such that no other user holds base-k; what it        *)
(* returns is never held by a user other than the excluded one.  (An email  *)
(* whose local part does not normalize has no base, and the call raises.)   *)
C13_Allocator ==
  call.fn = "generate_unique_username" =>
    LET base == normalize_username(LocalPart(call.args[1]))
        held == HeldByOthers(call.args[2])
        result == call.result
    IN IF ~ base.ok THEN ~ result.ok
       ELSE /\ result.ok
            /\ result.value \notin held
            /\ base.value \notin held => result.value = base.value
            /\ base.value \in held =>
                 \E k \in 1..(Cardinality(users) + 1) :
                   /\ result.value = Suffixed(base.value, k)
                   /\ \A j \in 1..(k - 1) : Suffixed(base.value, j) \in held

\* "alice" is taken by another user and so is "alice-1": the allocator,
\* excluding the holder of "alice-2", answers "alice-2"
C13_SecondSuffix ==
  /\ call.fn = "generate_unique_username"
  /\ call.args = <<EmailAliceX, 3>>
  /\ {NameAlice, NameAlice1, NameAlice2} \subseteq {u.username : u \in users}
  /\ call.result = Returned(NameAlice2)

-----------------------------------------------------------------------------
(* Tag usage *)

CounterNames == {"article_count", "space_count", "user_count"}

CounterOf(entity_type) ==
  CASE entity_type = "article" -> "article_count"
    [] entity_type = "space" -> "space_count"
    [] entity_type = "user" -> "user_count"

CountersNonNegative ==
  \A tag \in AI_TAGS :
    tag_usage[tag] # NoRow =>
      \A counter \in CounterNames : tag_usage[tag][counter] >= 0

\* The call just made took 1 from a counter that was 0
TookFromZero(c) ==
  /\ c.fn = "update_tag_usage"
  /\ c.args[3] = -1
  /\ c.args[4] # NoRow
  /\ c.args[4][CounterOf(c.args[2])] = 0

\* C15: in every state reached by update_tag_usage calls with delta +1 or -1
\* the article, space and user counters of every tag are >= 0, and a -1 delta
\* on a counter that is 0 leaves it at 0.
C15_CountersFloored ==
  /\ []CountersNonNegative
  /\ [][TookFromZero(call') =>
          tag_usage'[call'.args[1]][CounterOf(call'.args[2])] = 0]_vars

\* C15 witness: a -1 delta arrived at a counter that was 0, after the tag had
\* been used, and the counter is still 0
C15_FloorHit ==
  /\ TookFromZero(call)
  /\ call.result
  /\ call.args[4].last_used_at # NeverUsed
  /\ tag_usage[call.args[1]][CounterOf(call.args[2])] = 0

-----------------------------------------------------------------------------
(* Tag usage and the content tables *)

PublishedWith(tag) ==
  Cardinality({a \in articles : a.status = "published" /\ tag \in SetOf(a.tags)})

PublicWith(tag) ==
  Cardinality({s \in spaces : s.visibility = "public" /\ tag \in SetOf(s.tags)})

ExpertsIn(tag) ==
  Cardinality({u \in users : tag \in SetOf(u.expertise_tags)})

\* The counter of a tag, 0 where the tag has no row
Counted(tag, counter) ==
  IF tag_usage[tag] = NoRow THEN 0 ELSE tag_usage[tag][counter]

\* C16: after any sequence of article create/update/publish/unpublish/delete,
\* space create/update/delete and expertise-tag updates, every taxonomy tag's
\* article_count is the number of published articles carrying it, its
\* space_count the number of public spaces carrying it and its user_count the
\* number of users listing it as expertise.
C16_TagUsageReconstructible ==
  \A tag \in AI_TAGS :
    /\ Counted(tag, "article_count") = PublishedWith(tag)
    /\ Counted(tag, "space_count") = PublicWith(tag)
    /\ Counted(tag, "user_count") = ExpertsIn(tag)

-----------------------------------------------------------------------------
(* Trending scores *)

\* Tag a was used, and more recently than tag b (which may never have been used)
MoreRecent(a, b) ==
  /\ tag_usage[a].last_used_at # NeverUsed
  /\ tag_usage[a].last_used_at > tag_usage[b].last_used_at

\* The scores stored are those of the last run of the job on the rows as they are
Scored == call.fn = "calculate_trending_scores"

-----------------------------------------------------------------------------
(* Commits *)

\* An article or space is indexed as it is now
IndexedAsIs(entity_type, id, title, tags) ==
  \E r \in IndexRows(search_index, entity_type, id) :
    r.title = title /\ r.tags = tags

\* The index has a row for every published article and public space, equal
\* to it in title and tags, and no other row
IndexInSync ==
  /\ \A a \in articles :
       a.status = "published" => IndexedAsIs("article", a.id, a.title, a.tags)
  /\ \A s \in spaces :
       s.visibility = "public" => IndexedAsIs("space", s.id, s.name, s.tags)
  /\ \A r \in BagToSet(search_index) :
       \/ \E a \in articles :
            /\ r.entity_type = "article" /\ r.entity_id = a.id
            /\ a.status = "published" /\ r.title = a.title /\ r.tags = a.tags
       \/ \E s \in spaces :
            /\ r.entity_type = "space" /\ r.entity_id = s.id
            /\ s.visibility = "public" /\ r.title = s.name /\ r.tags = s.tags

\* C18: the tag usage deltas and the index change are atomic with the content
\* mutation: no committed state, seen by another request or left by a
\* failure, has an article's or space's publish state or tags changed without
\* the matching article and space counts and index row.
C18_DerivedStateAtomic ==
  /\ \A tag \in AI_TAGS :
       /\ Counted(tag, "article_count") = PublishedWith(tag)
       /\ Counted(tag, "space_count") = PublicWith(tag)
  /\ IndexInSync

\* The two calls have ended
BothEnded == \A i \in 1..Len(pending) : pending[i].at \in {"returned", "raised"}

\* A counter c after the deltas d and e, each floored at zero
Floored(c, d, e) == max(0, max(0, c + d) + e)

\* The counter the two calls are about, as they found it (0 without a row)
FoundCounter ==
  IF req.found["RAG"] = NoRow THEN 0
  ELSE req.found["RAG"][CounterOf(pending[1].entity_type)]

\* C19: two update_tag_usage calls for the same tag and entity kind that run
\* at the same time lose no update: under every interleaving of their reads
\* and writes the final counter is the first counter plus both deltas, each
\* floored at zero, in one order or the other.
C19_NoLostUpdate ==
  (req.op = "update_tag_usage" /\ BothEnded) =>
    Counted("RAG", CounterOf(pending[1].entity_type))
      \in {Floored(FoundCounter, pending[1].delta, pending[2].delta),
           Floored(FoundCounter, pending[2].delta, pending[1].delta)}

\* C20: after any sequence of completed article and space operations the
\* index holds a row for an article exactly when it is published and for a
\* space exactly when it is public, the row's title and tags are the
\* entity's, and no (entity_type, entity_id) has more than one row.
C20_SearchIndexInSync ==
  /\ IndexInSync
  /\ \A r \in BagToSet(search_index) :
       BagCount(search_index, IndexRows(search_index, r.entity_type, r.entity_id)) <= 1


\* The user a callback for this profile reconciles to when one exists: the
\* owner of the linked OAuthAccount, else the user with the normalized email
ExistingFor(profile) ==
  LET linked == {a \in oauth_accounts : a.provider = "github"
                                        /\ a.provider_account_id = profile.id}
  IN IF linked # {} THEN {u \in users : \E a \in linked : a.user_id = u.id}
     ELSE {u \in users : u.email = normalize_email(profile.email)}

\* The columns a callback may write on an existing user
CallbackMutable == {"avatar_url", "github_username", "display_name", "last_login"}

(* C21 as stated: a callback answered with the redirect for a user that     *)
(* existed before it (linked, or found by email) leaves every other user    *)
(* as it was and changes, on that user, only avatar_url, github_username,   *)
(* display_name (only when it was empty) and last_login: username, email    *)
(* and password_hash keep their values.                                     *)
C21_CallbackFrame ==
  [][\A provider \in Providers :
       (req'.op = "github_callback"
          /\ GithubCallback(req'.request, provider)
          /\ provider.ok
          /\ last'.status = 302
          /\ ExistingFor(provider.profile) # {})
         => \A u \in ExistingFor(provider.profile) :
              \E v \in users' :
                /\ v.id = u.id
                /\ users' \ {v} = users \ {u}
                /\ \A f \in (DOMAIN u) \ CallbackMutable : v[f] = u[f]
                /\ u.display_name # NoText => v.display_name = u.display_name]_vars


-----------------------------------------------------------------------------
(* PATCH /users/me with several fields in one body *)

\* Bodies that carry a text next to the field that is validated
PatchPayloads ==
  {[bio |-> "bio", expertise_tags |-> <<"LLMs", "Unknown">>],
   [display_name |-> <<"A", "l">>, username |-> NameCutAtHyphen],
   [company |-> "company", username |-> NameAlice1],
   [location |-> "location", username |-> NameBob],
   [bio |-> "bio", expertise_tags |-> <<"RAG", "RAG">>],
   [company |-> " ", username |-> NameCarol]}

NextPatch ==
  \/ \E user_id \in ProfileUserIds : GetMyProfile(user_id)
  \/ \E user_id \in ProfileUserIds, payload \in PatchPayloads :
       UpdateMyProfile(user_id, payload)

SpecPatch == InitProfile /\ [][NextPatch]_vars

\* Why PATCH /users/me must reject the body of this user, "" if it must not
RejectedFor(current_user, payload) ==
  LET name == IF Given(payload, "username")
                THEN normalize_username(payload.username) ELSE Raised
      other == Given(payload, "username") /\ name.ok
               /\ name.value # current_user.username
  IN IF /\ Given(payload, "expertise_tags")
        /\ \E i \in 1..Len(payload.expertise_tags) :
             payload.expertise_tags[i] \notin AI_EXPERTISE_TAGS
       THEN "Invalid expertise tags"
     ELSE IF Given(payload, "username") /\ ~ name.ok THEN USERNAME_INVALID
     ELSE IF other /\ ~ is_username_generated_from_email(users, current_user).value
       THEN USERNAME_SET_ONCE
     ELSE IF other /\ \E u \in users : /\ u.id # current_user.id
                                       /\ u.username = name.value
       THEN USERNAME_TAKEN
     ELSE ""

(* C22: a PATCH /users/me with an invalid expertise tag, a username of      *)
(* invalid format, a username another user holds, or a different username   *)
(* for a user whose username is no longer editable is answered 400 and      *)
(* leaves the users table exactly as it was, the other fields of the body   *)
(* included; when the cause is a username held by another user the detail   *)
(* is "Username is already taken", and that detail is given for no other    *)
(* cause.  Every request that is not answered 200 leaves the table as it    *)
(* was.                                                                     *)
C22_RejectedWritesNothing ==
  [][(req'.op = "update_my_profile"
        /\ UpdateMyProfile(req'.user, req'.payload))
       => \A current_user \in {u \in users : u.id = req'.user} :
            LET cause == RejectedFor(current_user, req'.payload)
            IN /\ cause # "" => /\ last'.status = 400
                                /\ last'.detail = cause
                                /\ users' = users
               /\ cause = "" => last'.status = 200
               /\ last'.detail = USERNAME_TAKEN <=> cause = USERNAME_TAKEN
               /\ last'.status # 200 => users' = users]_vars

\* A body with a company and a username that another user holds has been
\* rejected as taken, and the company of the user is still unset
C22_TakenWithCompany ==
  /\ req.op = "update_my_profile"
  /\ Given(req.payload, "company") /\ Given(req.payload, "username")
  /\ last.status = 400 /\ last.detail = USERNAME_TAKEN
  /\ \E u \in users : /\ u.id = req.user /\ u.company = ""
                      /\ \E v \in users : /\ v.id # u.id
                                          /\ v.username = req.payload.username


-----------------------------------------------------------------------------

\* The columns of tag_usage that follow a positive delta
UsedColumns == {"last_used_at", "week_count", "month_count"}

(* C23: a call of update_tag_usage for a tag outside AI_TAGS leaves the     *)
(* table as it is.  For a tag of AI_TAGS it leaves the rows of the other    *)
(* tags as they are and, on the row of the tag, every column but the        *)
(* counter of the entity kind, last_used_at, week_count and month_count;    *)
(* with a delta that is not positive these three are unchanged as well,     *)
(* and a call with a positive delta that returns sets last_used_at to the   *)
(* instant of the call and raises week_count and month_count by exactly 1.  *)
(* A call that raises changes nothing.                                      *)
C23_UpdateTagUsageFrame ==
  [][(call'.fn = "update_tag_usage"
        /\ UpdateTagUsage(call'.args[1], call'.args[2], call'.args[3]))
       => LET tag == call'.args[1]
              entity_type == call'.args[2]
              delta == call'.args[3]
          IN IF tag \notin AI_TAGS THEN tag_usage' = tag_usage
             ELSE LET before == tag_usage[tag]
                      after == tag_usage'[tag]
                  IN /\ \A other \in AI_TAGS \ {tag} :
                          tag_usage'[other] = tag_usage[other]
                     /\ ~ call'.result => after = before
                     /\ call'.result =>
                          /\ before # NoRow /\ after # NoRow
                          /\ \A column \in (DOMAIN before)
                                 \ ({CounterOf(entity_type)} \cup UsedColumns) :
                               after[column] = before[column]
                          /\ delta <= 0 =>
                               \A column \in UsedColumns :
                                 after[column] = before[column]
                          /\ delta > 0 =>
                               /\ after.last_used_at = now
                               /\ after.week_count = before.week_count + 1
                               /\ after.month_count = before.month_count + 1]_vars

\* C23 witness: a +1 for one kind reached the row of a tag that had been
\* used before, while the other tag has a row with counts of its own
C23_PositiveDeltaCounted ==
  /\ call.fn = "update_tag_usage" /\ call.result
  /\ call.args[3] = 1
  /\ call.args[4] # NoRow
  /\ call.args[4].month_count > 0
  /\ tag_usage[call.args[1]].month_count = call.args[4].month_count + 1
  /\ \E other \in AI_TAGS \ {call.args[1]} :
       tag_usage[other] # NoRow /\ tag_usage[other].month_count > 0


-----------------------------------------------------------------------------
(* POST /auth/login, requests overlapping: the handler awaits between the   *)
(* count of assert_within_limits and the commit of its AuthAttempt row      *)

\* What the two SELECT count(*) of assert_within_limits return now
LimiterCounts(action, email, client_ip) ==
  <<_count(attempts, action, "email", hash_email(normalize_email(email)), now),
    _count(attempts, action, "ip", client_ip, now)>>

\* A login arrives and runs up to the answer of assert_within_limits
LoginArrives(email, password, client_ip) ==
  /\ Len(pending) < MaxInFlight
  /\ BagCardinality(attempts) + Len(pending) < LoginLimit + MaxInFlight
  /\ pending' = Append(pending,
       [op |-> "login", email |-> email, password |-> password,
        client_ip |-> client_ip,
        limited |-> assert_within_limits(attempts, "login",
                      hash_email(normalize_email(email)), client_ip, now),
        seen |-> LimiterCounts("login", email, client_ip)])
  /\ UNCHANGED <<username_changed, tag_usage, articles, spaces, search_index, uuids>>
  /\ UNCHANGED <<now, users, oauth_accounts, attempts, wire, req, last, call>>

\* The login that arrived i-th of those in flight runs from the limiter's
\* answer to its commit and its response
LoginCommits(i) ==
  /\ i \in 1..Len(pending)
  /\ pending[i].op = "login"
  /\ \E nonce \in Nonces :
       LET p == pending[i]
           r == login_from_limiter(users, oauth_accounts, attempts, now,
                  [email |-> p.email, password |-> p.password], p.client_ip,
                  nonce, p.limited)
       IN /\ req' = p
          /\ Commit(r)
          /\ attempts' = r.attempts
  /\ pending' = Without(pending, i)
  /\ UNCHANGED <<username_changed, tag_usage, articles, spaces, search_index, uuids>>
  /\ UNCHANGED <<now, call>>

\* Who logs in during the burst: one account from one address, with a
\* wrong password
BurstClients == {[email |-> EmailSarah, ip |-> Ip1]}

BurstPasswords == {PasswordStrong}

InitBurst ==
  /\ now = 0
  /\ users = create_demo_users({})
  /\ oauth_accounts = {}
  /\ attempts = EmptyBag
  /\ wire = {}
  /\ req = NoRequest
  /\ last = NoResponse
  /\ call = NoCall
  /\ ContentInit

NextBurst ==
  \/ \E c \in BurstClients, password \in BurstPasswords :
       LoginArrives(c.email, password, c.ip)
  \/ \E i \in 1..MaxInFlight : LoginCommits(i)

SpecBurst == InitBurst /\ [][NextBurst]_vars


-----------------------------------------------------------------------------

\* The rows of bag A for one action and one email whose created_at lies in
\* the window that ends at t and which the limiter had let pass
PassedInWindow(A, action, email, t) ==
  LET inside == {r \in BagToSet(A) :
                   /\ r.action = action
                   /\ r.email_hash = hash_email(normalize_email(email))
                   /\ t - r.created_at <= WindowSeconds
                   /\ r.reason \notin {RateLimitReason("email"),
                                       RateLimitReason("ip")}}
  IN BagCardinality([r \in inside |-> A[r]])

\* The login in flight at position i committing now read its counts when
\* the table was as it is: no request recorded a row in between
HandledAlone(i) ==
  /\ LoginCommits(i)
  /\ pending[i].seen = LimiterCounts("login", pending[i].email, pending[i].client_ip)

(* C24: a login whose count saw fewer than L rows passes the limiter even   *)
(* when other logins have recorded their rows since, so the rows of logins  *)
(* that passed within one window can exceed L, by at most one per further   *)
(* request in flight; a login that commits with no row recorded between     *)
(* its count and its commit passes only below L and leaves at most L rows   *)
(* of its key in the window.                                                *)
C24_SoftCap ==
  /\ [](\A c \in BurstClients :
          PassedInWindow(attempts, "login", c.email, now)
            <= LoginLimit + MaxInFlight - 1)
  /\ [][\A i \in 1..MaxInFlight :
          (i <= Len(pending) /\ HandledAlone(i) /\ last'.status # 429)
            => /\ pending[i].seen[1] < LoginLimit
               /\ pending[i].seen[2] < LoginLimit
               /\ PassedInWindow(attempts', "login", pending[i].email, now)
                    <= LoginLimit]_vars

\* C24 witness: two logins counted L - 1 rows before either recorded its
\* own, both passed, and the window holds L + 1 rows of logins that passed
C24_Overshoot ==
  /\ \E c \in BurstClients :
       PassedInWindow(attempts, "login", c.email, now) = LoginLimit + 1
  /\ req.op = "login" /\ req.limited = "" /\ req.seen[1] = LoginLimit - 1
  /\ last.status # 429


-----------------------------------------------------------------------------
(* POST /auth/login by a client that keeps retrying, one request at a time  *)

RetryInstants == {WindowSeconds, WindowSeconds + 1}

RetryPasswords == {PasswordDemo, PasswordStrong}

\* The client retries one kind of request until it has been limited through
\* two windows; it mistypes its password only in the first of them, and it
\* signs up with the address it is registered with
NextRetry ==
  \/ \E password \in RetryPasswords :
       /\ BagCardinality(attempts) <= 2 * LoginLimit
       /\ \A r \in BagToSet(attempts) : r.action = "login"
       /\ password = PasswordDemo \/ now = 0
       /\ Login(EmailSarah, password, Ip1)
  \/ /\ BagCardinality(attempts) <= 2 * SignupLimit
     /\ \A r \in BagToSet(attempts) : r.action = "signup"
     /\ Signup(EmailSarah, PasswordStrong, Ip1)
  \/ \E t \in RetryInstants : Tick(t)

SpecRetry == InitBurst /\ [][NextRetry]_vars

\* The rows of bag A for one action and one key whose created_at lies in
\* the window [t - W, t]
RowsInWindow(A, action, scope, key, t) ==
  LET inside == {r \in BagToSet(A) :
                   /\ r.action = action
                   /\ (IF scope = "email" THEN r.email_hash ELSE r.ip_address) = key
                   /\ t - r.created_at <= WindowSeconds}
  IN BagCardinality([r \in inside |-> A[r]])

\* What the limiter owes a request of the client that has just been answered
LimitedAndCounted(action) ==
  LET key == hash_email(normalize_email(EmailSarah))
      full == \/ Trailing(action, "email", key) >= LimitOf(action)
              \/ Trailing(action, "ip", Ip1) >= LimitOf(action)
  IN /\ last'.status = 429 <=> full
     /\ RowsInWindow(attempts', action, "email", key, now)
          = Trailing(action, "email", key) + 1
     /\ RowsInWindow(attempts', action, "ip", Ip1, now)
          = Trailing(action, "ip", Ip1) + 1
     /\ last'.status = 429 =>
          \E scope \in {"email", "ip"} :
            attempts' = attempts (+) SetToBag({
              AuthAttempt(action, key, Ip1, FALSE, RateLimitReason(scope), now)})

(* C25: a login, or a signup that reaches the limiter, is answered 429      *)
(* exactly when its hashed email or its client IP already has L rows of     *)
(* its action in the trailing window W, rows of successful, failed and      *)
(* rate-limited attempts alike; whatever the answer, the request adds one   *)
(* row that the windows of both its keys hold from then on, and the row of  *)
(* a 429 carries the rate-limit reason.  So a key whose window keeps L      *)
(* rows is never admitted, and it is admitted again only once fewer than L  *)
(* of its rows are left in the window.                                      *)
C25_LimitedAttemptsCount ==
  [][/\ \A password \in RetryPasswords :
          Login(EmailSarah, password, Ip1) => LimitedAndCounted("login")
     /\ Signup(EmailSarah, PasswordStrong, Ip1) => LimitedAndCounted("signup")]_vars

\* C25 witness: every login that had passed has left the window, and the
\* client is limited still, by the rows of its rejected retries alone
C25_LimitedByRetries ==
  /\ now = WindowSeconds + 1
  /\ last.status = 429
  /\ req.op = "login"
  /\ PassedInWindow(attempts, "login", EmailSarah, now) = 0
  /\ Trailing("login", "email", hash_email(normalize_email(EmailSarah)))
       > LoginLimit
  /\ \E r \in BagToSet(attempts) : r.success /\ r.created_at = 0


-----------------------------------------------------------------------------
(* GET /auth/callback/github, requests overlapping: the handler awaits      *)
(* between its SELECTs of the account and the user and its flush            *)

\* session.flush() and session.commit() of a callback that read the tables
\* as read_users and read_accounts and computed the outcome r from them,
\* on the tables U and O as they are now: the rows it added or changed are
\* written under the constraints of both tables, or nothing is
flush_callback(U, O, read_users, read_accounts, r) ==
  LET written == r.users \ read_users
      added == r.oauth_accounts \ read_accounts
      ok == /\ \A row \in written :
                 IF \E u \in U : u.id = row.id THEN UserUpdateOk(U, row)
                 ELSE UserInsertOk(U, row)
            /\ \A row \in added : OAuthInsertOk(O, row)
  IN IF r.resp.status # 302 THEN Outcome(U, O, <<>>, r.resp)
     ELSE IF ~ ok THEN Outcome(U, O, <<>>, Unhandled("github_callback", TRUE))
     ELSE Outcome({u \in U : \A row \in written : row.id # u.id} \cup written,
                  O \cup added, <<>>, r.resp)

\* A callback arrives and runs up to its SELECTs of the account and the user
CallbackArrives(request, provider) ==
  /\ Len(pending) < MaxInFlight
  /\ pending' = Append(pending,
       [op |-> "github_callback", request |-> request, provider |-> provider,
        users |-> users, oauth_accounts |-> oauth_accounts])
  /\ UNCHANGED <<username_changed, tag_usage, articles, spaces, search_index, uuids>>
  /\ UNCHANGED <<now, users, oauth_accounts, attempts, wire, req, last, call>>

\* The callback that arrived i-th of those in flight runs to its response;
\* req keeps whether its SELECT had found the OAuthAccount
CallbackCommits(i) ==
  /\ i \in 1..Len(pending)
  /\ pending[i].op = "github_callback"
  /\ \E nonce \in Nonces :
       LET p == pending[i]
           r == github_callback(p.users, p.oauth_accounts, now, p.request,
                                p.provider, nonce)
       IN /\ req' = [op |-> "github_callback", request |-> p.request,
                     profile |-> p.provider.profile,
                     linked |-> \E a \in p.oauth_accounts :
                                  a.provider_account_id = p.provider.profile.id]
          /\ Commit(flush_callback(users, oauth_accounts, p.users,
                                   p.oauth_accounts, r))
  /\ pending' = Without(pending, i)
  /\ UNCHANGED <<username_changed, tag_usage, articles, spaces, search_index, uuids>>
  /\ UNCHANGED <<now, attempts, call>>

\* One GitHub account, whose email is the one of a user or, after a change
\* at GitHub, the one of another user; and an account of nobody yet
LinkProfiles == {ProfileSarah, ProfileSarahMoved, ProfileNew}

NextLink ==
  \/ SeedSampleUsers
  \/ SeedDemoUsers
  \/ GithubLogin("s1")
  \/ \E cookie \in wire, profile \in LinkProfiles :
       CallbackArrives(CallbackRequest("oauth-code", "s1", cookie),
                       [ok |-> TRUE, profile |-> profile])
  \/ \E i \in 1..MaxInFlight : CallbackCommits(i)

SpecLink == Init /\ [][NextLink]_vars

\* The number of OAuthAccount rows and of users does not change
NothingCreated ==
  /\ oauth_accounts' = oauth_accounts
  /\ {u.id : u \in users'} = {u.id : u \in users}
  /\ Cardinality(users') = Cardinality(users)

(* C26: whatever callbacks have run, one after another or overlapping,      *)
(* there is at most one OAuthAccount per provider and provider account id   *)
(* and at most one user per email; and a callback for a provider account    *)
(* id that has its OAuthAccount already, when the callback reads the        *)
(* tables or when it commits, creates no user and no OAuthAccount.          *)
C26_CallbackIdempotent ==
  /\ [](/\ \A a, b \in oauth_accounts :
             (a.provider = b.provider
                /\ a.provider_account_id = b.provider_account_id) => a = b
        /\ \A u, v \in users : u.email = v.email => u = v)
  /\ [][\A i \in 1..MaxInFlight :
          (/\ i <= Len(pending)
           /\ CallbackCommits(i)
           /\ \E a \in oauth_accounts \cup pending[i].oauth_accounts :
                a.provider_account_id = pending[i].provider.profile.id)
            => NothingCreated]_vars

\* C26 witness: the callback is answered with the redirect for an account
\* that was linked when it arrived; no second OAuthAccount has appeared
C26_SecondCallback ==
  /\ req.op = "github_callback"
  /\ req.linked
  /\ last.status = 302
  /\ Cardinality({a \in oauth_accounts :
                    a.provider_account_id = req.profile.id}) = 1


-----------------------------------------------------------------------------

(* C27: POST /auth/logout answers 204, sets no cookie and leaves every      *)
(* table and every token as it was; the request that follows a logout is    *)
(* answered as any other: an issued token that is within max_age_seconds    *)
(* of its issue still verifies, GET /me with it is answered 200 for its     *)
(* user while that user exists, and GET /me without a cookie is answered    *)
(* 401.                                                                     *)
C27_LogoutKeepsNoState ==
  /\ [][Logout => /\ last'.status = 204
                  /\ last'.set_cookie = NoToken
                  /\ UNCHANGED <<now, users, oauth_accounts, attempts, wire>>]_vars
  /\ [][(req.op = "logout" /\ req'.op = "me" /\ Me(req'.token)) =>
          LET token == req'.token
          IN /\ Fresh(token) =>
                  /\ SessionTokenManager_verify(token, now).kind = "claims"
                  /\ (\E u \in users : u.id = token.payload.user_id)
                       => /\ last'.status = 200
                          /\ last'.user = token.payload.user_id
             /\ token = NoToken =>
                  last'.status = 401 /\ last'.detail = NOT_AUTHENTICATED]_vars

\* C27 witness: a logout has just been answered, later than the issue of a
\* token the client had been sent, and the token is accepted still
C27_TokenOutlivesLogout ==
  /\ req.op = "logout"
  /\ last.status = 204
  /\ \E token \in wire :
       /\ Fresh(token)
       /\ now > token.payload.iat
       /\ SessionTokenManager_verify(token, now).kind = "claims"
       /\ get_current_user(users, token, now).status = 200

-----------------------------------------------------------------------------
(* Space membership: routes/spaces.py, services/space_service.py *)

\* None, as the role of a user who has no row in space_members
NoRole == ""

\* The rows of space_members with the given space_id
MembersOf(S, space_id) == UNION {s.members : s \in {x \in S : x.id = space_id}}

\* SpaceService.get_member_role
get_member_role(S, space_id, user_id) ==
  LET rows == {m \in MembersOf(S, space_id) : m.user_id = user_id}
  IN IF rows = {} THEN NoRole ELSE (CHOOSE m \in rows : TRUE).role

\* The primary key (space_id, user_id) of space_members admits the row
SpaceMemberInsertOk(S, space_id, row) ==
  /\ \E s \in S : s.id = space_id
  /\ \A m \in MembersOf(S, space_id) : m.user_id # row.user_id

\* The writes of SpaceService.join_space: the INSERT, then member_count + 1
\* computed by the database on the row it has locked
join_space(S, space_id, user_id, role) ==
  {IF s.id = space_id
     THEN [s EXCEPT !.members = @ \cup {SpaceMember(user_id, role)},
                    !.member_count = @ + 1]
     ELSE s : s \in S}

\* The writes of SpaceService.leave_space: the DELETE of the rows that match,
\* then member_count - 1 computed by the database
leave_space(S, space_id, user_id) ==
  {IF s.id = space_id
     THEN [s EXCEPT !.members = {m \in @ : m.user_id # user_id},
                    !.member_count = @ - 1]
     ELSE s : s \in S}

\* The write of SpaceService.update_member_role: the UPDATE of the rows that
\* match
update_member_role(S, space_id, user_id, new_role) ==
  {IF s.id = space_id
     THEN [s EXCEPT !.members =
             {IF m.user_id = user_id THEN SpaceMember(m.user_id, new_role) ELSE m :
                m \in @}]
     ELSE s : s \in S}

\* What a handler has read when it reaches its first write: whether db.get
\* found the space, whether the caller is its owner_id, the caller's role and
\* the role of the user the request is about
MemberReads(S, space_id, caller, user_id) ==
  [found |-> \E s \in S : s.id = space_id,
   is_owner |-> \E s \in S : s.id = space_id /\ s.owner_id = caller,
   role |-> get_member_role(S, space_id, caller),
   target_role |-> get_member_role(S, space_id, user_id)]

\* POST /api/spaces/{id}/join, POST /api/spaces/{id}/leave and
\* PATCH /api/spaces/{id}/members/{user_id}, up to the first write
MemberArrives(op, space_id, caller, user_id, new_role) ==
  /\ Len(pending) < MaxInFlight
  \* no request is followed further once a member_count has gone below zero
  /\ \A s \in spaces : s.member_count >= 0
  /\ pending' = Append(pending,
                       [op |-> op, space_id |-> space_id, caller |-> caller,
                        user_id |-> user_id, new_role |-> new_role,
                        seen |-> MemberReads(spaces, space_id, caller, user_id)])
  /\ req' = [op |-> "arrive", of |-> op]
  /\ last' = [op |-> op, status |-> 0]
  /\ UNCHANGED <<username_changed, tag_usage, articles, spaces, search_index, uuids>>
  /\ UNCHANGED <<now, users, oauth_accounts, attempts, wire, call>>

\* The answer and the rows of spaces after the i-th request in flight has
\* made its writes and committed
MemberOutcome(p, S) ==
  IF p.op = "join_space"
    THEN IF ~ p.seen.found THEN [status |-> 404, spaces |-> S]
         ELSE IF p.seen.role # NoRole THEN [status |-> 409, spaces |-> S]
         ELSE IF ~ SpaceMemberInsertOk(S, p.space_id,
                                       SpaceMember(p.caller, "member"))
           THEN [status |-> 500, spaces |-> S]
         ELSE [status |-> 200,
               spaces |-> join_space(S, p.space_id, p.caller, "member")]
  ELSE IF p.op = "leave_space"
    THEN IF ~ p.seen.found \/ p.seen.is_owner \/ p.seen.role = NoRole
           THEN [status |-> 400, spaces |-> S]
         \* the service returns nothing after its commit, which the route
         \* takes for a refusal
         ELSE [status |-> 400, spaces |-> leave_space(S, p.space_id, p.caller)]
  ELSE IF p.seen.role \notin {"owner", "moderator"}
    THEN [status |-> 403, spaces |-> S]
  ELSE IF p.new_role \notin {"moderator", "member"}
    THEN [status |-> 400, spaces |-> S]
  ELSE IF p.seen.target_role \in {NoRole, "owner"}
    THEN [status |-> 400, spaces |-> S]
  ELSE [status |-> 200,
        spaces |-> update_member_role(S, p.space_id, p.user_id, p.new_role)]

MemberCommits(i) ==
  LET p == pending[i]
      r == MemberOutcome(p, spaces)
  IN /\ req' = [op |-> p.op, space_id |-> p.space_id, caller |-> p.caller]
     /\ last' = [op |-> p.op, status |-> r.status]
     /\ spaces' = r.spaces
     /\ pending' = Without(pending, i)
     /\ UNCHANGED <<username_changed, tag_usage, articles, search_index, uuids>>
     /\ UNCHANGED <<now, users, oauth_accounts, attempts, wire, call>>

MemberRoles == {"owner", "moderator", "member"}

MemberCreates == {d \in SpaceCreates : d.tags = <<>>}

NextMembers ==
  \/ \E data \in MemberCreates : CreateSpace(1, data, FALSE)
  \/ \E op \in {"join_space", "leave_space"}, id \in ContentIds,
        caller \in ContentUserIds :
       MemberArrives(op, id, caller, caller, NoRole)
  \/ \E id \in ContentIds, caller \in ContentUserIds, user_id \in ContentUserIds,
        new_role \in MemberRoles :
       MemberArrives("update_member_role", id, caller, user_id, new_role)
  \/ \E i \in 1..Len(pending) : MemberCommits(i)

SpecMembers == InitProfile /\ [][NextMembers]_vars

\* C28: in every state reached by creating spaces, joining, leaving and
\* changing roles, overlapping requests included, each space's member_count
\* is the number of its space_members rows, exactly one of those rows has
\* the role owner and it is the row of the space's owner_id, and no user has
\* two rows in one space.
C28_MembershipConsistent ==
  \A s \in spaces :
    /\ s.member_count = Cardinality(s.members)
    /\ {m.user_id : m \in {x \in s.members : x.role = "owner"}} = {s.owner_id}
    /\ Cardinality({x \in s.members : x.role = "owner"}) = 1
    /\ \A m1, m2 \in s.members : m1.user_id = m2.user_id => m1 = m2

\* The rows of space_members alone are as C28 has them
C28_RowsConsistent ==
  \A s \in spaces :
    /\ {m.user_id : m \in {x \in s.members : x.role = "owner"}} = {s.owner_id}
    /\ Cardinality({x \in s.members : x.role = "owner"}) = 1
    /\ \A m1, m2 \in s.members : m1.user_id = m2.user_id => m1 = m2

-----------------------------------------------------------------------------
(* Reading an article: routes/articles.py, services/article_service.py *)

\* No cookie: get_current_user_optional returns None
Anonymous == 0

NoArticle == [id |-> 0]

\* ArticleService.get_article_by_slug.  The slug of an article is unique
\* and never rewritten by the requests followed here, so it names the row as
\* its id does.
get_article_by_slug(A, slug, user_id) ==
  LET found == {a \in A : a.id = slug}
  IN IF found = {} THEN NoArticle
     ELSE LET article == CHOOSE a \in found : TRUE
          IN IF /\ article.status # "published"
                /\ (user_id = Anonymous \/ article.author_id # user_id)
               THEN NoArticle
               ELSE article

\* ArticleService.increment_view_count: UPDATE ... WHERE id = article_id
increment_view_count(A, article_id) ==
  {IF a.id = article_id THEN [a EXCEPT !.view_count = @ + 1] ELSE a : a \in A}

\* GET /api/articles/{slug}, up to the answer or to the call of
\* increment_view_count
GetArticle(slug, user_id) ==
  LET article == get_article_by_slug(articles, slug, user_id)
  IN /\ \A a \in articles : a.view_count < MaxCount
     /\ req' = [op |-> "get_article", slug |-> slug, user_id |-> user_id]
     /\ IF article = NoArticle
          THEN /\ last' = [op |-> "get_article", status |-> 404]
               /\ UNCHANGED pending
        ELSE IF article.status = "published"
          THEN /\ Len(pending) < MaxInFlight
               /\ last' = [op |-> "get_article", status |-> 0]
               /\ pending' = Append(pending, [op |-> "get_article",
                                              article_id |-> article.id])
        ELSE /\ last' = [op |-> "get_article", status |-> 200]
             /\ UNCHANGED pending
     /\ UNCHANGED <<username_changed, tag_usage, articles, spaces, search_index, uuids>>
     /\ UNCHANGED <<now, users, oauth_accounts, attempts, wire, call>>

\* The rest of GET /api/articles/{slug} for an article found published:
\* increment_view_count and its commit, then the answer
CountView(i) ==
  LET p == pending[i]
  IN /\ req' = [op |-> "increment_view_count", article_id |-> p.article_id]
     /\ articles' = increment_view_count(articles, p.article_id)
     /\ last' = [op |-> "get_article", status |-> 200]
     /\ pending' = Without(pending, i)
     /\ UNCHANGED <<username_changed, tag_usage, spaces, search_index, uuids>>
     /\ UNCHANGED <<now, users, oauth_accounts, attempts, wire, call>>

Readers == {Anonymous} \cup ContentUserIds

PublishPayloads == {[published |-> TRUE], [published |-> FALSE]}

NextViews ==
  \/ CreateArticle(1, "t1", <<>>, FALSE)
  \/ \E user_id \in ContentUserIds, id \in ContentIds,
        payload \in PublishPayloads, order \in TagOrders :
       UpdateArticle(user_id, id, payload, order, FALSE)
  \/ \E user_id \in ContentUserIds, id \in ContentIds :
       DeleteArticle(user_id, id, FALSE)
  \/ \E slug \in ContentIds, user_id \in Readers : GetArticle(slug, user_id)
  \/ \E i \in 1..Len(pending) : CountView(i)

SpecViews == InitProfile /\ [][NextViews]_vars

\* The article of the given id, before and after a step
Before(id) == CHOOSE a \in articles : a.id = id
After(id) == CHOOSE a \in articles' : a.id = id

\* C29: an article that is not published is found by slug only for its
\* author, everybody else is answered 404; the view_count of an article
\* changes in no step in which it is a draft, and where it changes it grows
\* by one, in the read of that article, published, that is answered 200.
C29_DraftsHiddenViewsCounted ==
  /\ [][\A slug \in ContentIds, user_id \in Readers :
          (GetArticle(slug, user_id)
             /\ \E a \in articles : /\ a.id = slug
                                    /\ a.status # "published"
                                    /\ a.author_id # user_id)
            => last'.status = 404]_vars
  /\ [][\A id \in ContentIds :
          ((\E a \in articles : a.id = id) /\ (\E a \in articles' : a.id = id)
             /\ After(id).view_count # Before(id).view_count)
            => /\ Before(id).status = "published"
               /\ After(id).view_count = Before(id).view_count + 1
               /\ req'.op = "increment_view_count"
               /\ req'.article_id = id
               /\ last'.status = 200]_vars

\* The part of C29 that is about who is served a draft
C29_DraftsHidden ==
  [][\A slug \in ContentIds, user_id \in Readers :
       (GetArticle(slug, user_id)
          /\ \E a \in articles : /\ a.id = slug
                                 /\ a.status # "published"
                                 /\ a.author_id # user_id)
         => last'.status = 404]_vars

-----------------------------------------------------------------------------
(* TagService.update_tag_usage and TagService.reset_periodic_counts *)

\* The periods the job is run with; any other than week and month writes
\* nothing
Periods == {"week", "month", "year"}

\* The tags the calls of update_tag_usage are made for
PeriodTags == {"LLMs", "Hiking"}

\* No +1 is followed for a counter that has reached MaxCount
BelowMaxCount(tag, entity_type, delta) ==
  IF delta > 0 /\ tag \in AI_TAGS
    THEN IF tag_usage[tag] # NoRow
           THEN tag_usage[tag][CounterOf(entity_type)] < MaxCount
           ELSE TRUE
    ELSE TRUE

NextPeriods ==
  \/ \E tag \in PeriodTags, entity_type \in EntityKinds, delta \in {1, -1} :
       /\ BelowMaxCount(tag, entity_type, delta)
       /\ UpdateTagUsage(tag, entity_type, delta)
  \/ \E period \in Periods : ResetPeriodicCounts(period)

SpecPeriods == InitTagUsage /\ [][NextPeriods]_vars

\* The rows of the table T
RowsOf(T) == {T[tag] : tag \in {x \in DOMAIN T : T[x] # NoRow}}

(* C30: whatever calls of update_tag_usage and reset_periodic_counts have   *)
(* been made, every row of tag_usage has 0 <= week_count <= month_count.    *)
(* A call of update_tag_usage with a positive delta that returns raises     *)
(* week_count and month_count of its row by one each; the reset of the      *)
(* week sets week_count of every row to 0 and nothing else; the reset of    *)
(* the month sets week_count and month_count of every row to 0 and nothing  *)
(* else, so that article_count, space_count and user_count are as before    *)
(* either reset; neither reset adds or removes a row.                       *)
C30_PeriodicCounts ==
  /\ [](\A row \in RowsOf(tag_usage) :
          0 <= row.week_count /\ row.week_count <= row.month_count)
  /\ [][(call'.fn = "update_tag_usage"
           /\ UpdateTagUsage(call'.args[1], call'.args[2], call'.args[3])
           /\ call'.args[3] > 0 /\ call'.result)
          => LET tag == call'.args[1]
             IN IF tag \in AI_TAGS /\ tag_usage[tag] # NoRow
                  THEN /\ tag_usage'[tag].week_count = tag_usage[tag].week_count + 1
                       /\ tag_usage'[tag].month_count = tag_usage[tag].month_count + 1
                  ELSE tag_usage' = tag_usage]_vars
  /\ [][ResetPeriodicCounts("week")
          => \A tag \in AI_TAGS :
               IF tag_usage[tag] = NoRow THEN tag_usage'[tag] = NoRow
               ELSE tag_usage'[tag] = [tag_usage[tag] EXCEPT !.week_count = 0]]_vars
  /\ [][ResetPeriodicCounts("month")
          => \A tag \in AI_TAGS :
               IF tag_usage[tag] = NoRow THEN tag_usage'[tag] = NoRow
               ELSE tag_usage'[tag] = [tag_usage[tag] EXCEPT !.week_count = 0,
                                                             !.month_count = 0]]_vars

\* C30 witness: the week has just been reset on a table in which a tag had
\* been counted this month, and the tag keeps its month_count and its
\* counters
C30_WeekResetKeepsMonth ==
  /\ call.fn = "reset_periodic_counts"
  /\ call.args[1] = "week"
  /\ \E row \in RowsOf(tag_usage) :
       /\ row.week_count = 0
       /\ row.month_count > 0
       /\ total_usage(row) > 0

====
